---- MODULE Spec2Model ----
(***************************************************************************)
(* Windowed dataset indexing and batch collation of viscy.                 *)
(*                                                                         *)
(* Flat indices, time indices and z indices are 0-based as in the Python   *)
(* source; TLA+ sequences are 1-based, so element i of a Python list l is  *)
(* At(l, i).  A pixel plane (Y, X) of a position's array is identified by  *)
(* its coordinates: the plane at img[t, c, z] of position p is the tuple   *)
(* <<p, t, name of channel c in p, z>>.                                    *)
(***************************************************************************)
EXTENDS Integers, Sequences, FiniteSets, TLC

VARIABLES
    positions,        \* SlidingWindowDataset.positions: list of FOVs
    channels,         \* SlidingWindowDataset.channels: the channel map
    z_window_size,    \* SlidingWindowDataset.z_window_size
    transform,        \* SlidingWindowDataset.transform
    source_ch_idx,    \* channel indices of the source channels
    target_ch_idx,    \* channel indices of the target channels, or None
    window_keys,      \* cumulative window counts, one per position
    window_arrays,    \* the image array of each position (by position name)
    window_norm_meta, \* normalization metadata of each position
    max_window,       \* SlidingWindowDataset._max_window
    status,           \* "new" before __init__, then "ready" or "failed"
    result,           \* outcome of the last __getitem__ call
    batch,            \* argument of the last _collate_samples call
    collated,         \* outcome of the last _collate_samples call
    dm,               \* a data module (HCSDataModule, CachedDataModule)
    hook,             \* an on_before_batch_transfer call and its outcome
    cd,               \* a CachedDataset and the array store it reads
    nz,               \* a NormalizeSampled transform and its last calls
    workers,          \* the DataLoader worker processes' CachedDataset copies
    cdm,              \* a ContrastiveDataModule
    cds,              \* a ContrastiveDataset and its running __getitem__ call
    tiling            \* a crop_3d call and its outcome

vars == <<positions, channels, z_window_size, transform, source_ch_idx,
          target_ch_idx, window_keys, window_arrays, window_norm_meta,
          max_window, status, result, batch, collated, dm, hook, cd, nz,
          workers, cdm, cds, tiling>>

dataset_vars == <<positions, channels, z_window_size, transform, source_ch_idx,
                  target_ch_idx, window_keys, window_arrays, window_norm_meta,
                  max_window, status, result>>

collate_vars == <<batch, collated>>

component_vars == <<dm, hook, cd, nz, workers, cdm, cds, tiling>>

other_vars == <<workers, cdm, cds, tiling>>

----------------------------------------------------------------------------
(* Bounds of the model.                                                    *)

\* largest number of positions (FOVs) given to one dataset
MaxPos == 2
\* largest number of time frames of a position
MaxT == 2
\* largest number of z-slices of a position, and largest z-window size
MaxZ == 2
\* flat indices tried by __getitem__ range over -MaxOut .. len + MaxOut
MaxOut == 2
\* largest num_samples of a multi-crop transform, and longest list in a sample
MaxCrops == 2
\* largest number of samples in one batch
MaxBatch == 3

----------------------------------------------------------------------------
(* Python values.                                                          *)

None == [type |-> "NoneType"]

\* element i (0-based) of a Python list
At(l, i) == l[i + 1]

\* a // b of Python: the floor of the quotient, for either sign of b (b # 0)
FloorDiv(a, b) == IF b > 0 THEN a \div b ELSE (0 - a) \div (0 - b)

Min(a, b) == IF a < b THEN a ELSE b

Max(a, b) == IF a < b THEN b ELSE a

\* the indices selected by slice(start, stop) on a dimension of length n
SliceIndices(start, stop, n) ==
    LET lo == IF start < 0 THEN Max(start + n, 0) ELSE Min(start, n)
        hi == IF stop < 0 THEN Max(stop + n, 0) ELSE Min(stop, n)
    IN  [k \in 1..Max(hi - lo, 0) |-> lo + k - 1]

\* list.index(x): 0-based position of the first element equal to x
ListIndex(l, x) == (CHOOSE i \in 1..Len(l) : l[i] = x /\ \A j \in 1..(i - 1) : l[j] # x) - 1

\* sorted(l + [x]).index(x): the number of elements of l smaller than x
SortedInsertIndex(l, x) == Cardinality({i \in 1..Len(l) : l[i] < x})

\* isinstance(v, Sequence): lists, tuples and strings are, tensors and dicts are not
IsSequence(v) == v.type \in {"list", "tuple", "str"}

Tensor(data) == [type |-> "Tensor", data |-> data]

List(items) == [type |-> "list", items |-> items]

Tuple(items) == [type |-> "tuple", items |-> items]

\* an int held by an attribute that may also be unset, or by a tuple
PyInt(value) == [type |-> "int", value |-> value]

PyStr(value) == [type |-> "str", value |-> value]

----------------------------------------------------------------------------
(* The array store: a position (FOV) and its image array "0".              *)
(* A position is [name, frames, slices, channel_names, norm_meta]; its     *)
(* array has shape (frames, Len(channel_names), slices, Y, X).             *)

ChannelNames == {"Phase", "Nuclei"}

\* Position.get_channel_index(name) succeeds
HasChannel(fov, c) == \E i \in 1..Len(fov.channel_names) : fov.channel_names[i] = c

\* Position.get_channel_index(name): index of the channel in THIS position
get_channel_index(fov, c) == ListIndex(fov.channel_names, c)

\* the plane img[t, ch, z] of a position's array
Plane(img, t, ch, z) == <<img.name, t, At(img.channel_names, ch), z>>

\* _read_norm_meta(fov): the "normalization" attribute, or None
_read_norm_meta(fov) == fov.norm_meta

\* a transform applied to one single-channel image (C=1, Z, Y, X): crop number
\* `crop` of it; the leading dimension is kept
Crop(img, crop) ==
    IF img.type = "Tensor"
    THEN Tensor([f \in DOMAIN img.data |-> <<crop, img.data[f]>>])
    ELSE img

----------------------------------------------------------------------------
(* viscy.data.hcs.SlidingWindowDataset                                     *)

\* the names of a channel map, source first: ch_names of __getitem__
AllChannelNames(chmap) ==
    IF "target" \in DOMAIN chmap THEN chmap["source"] \o chmap["target"]
    ELSE chmap["source"]

\* CountWindows with zs = slices - w: the window at the last z is not counted
RECURSIVE CountWindowsNoPlusOne(_, _, _)
CountWindowsNoPlusOne(pos, w, k) ==
    IF k = 0 THEN 0
    ELSE LET img_arr == pos[k]
             ts == img_arr.frames
             zs == img_arr.slices - w
         IN  CountWindowsNoPlusOne(pos, w, k - 1) + ts * zs

\* window_keys after the first k positions of the loop of _get_windows
RECURSIVE CountWindows(_, _, _)
CountWindows(pos, w, k) ==
    IF k = 0 THEN 0
    ELSE LET img_arr == pos[k]
             ts == img_arr.frames
             zs == img_arr.slices - w + 1
         IN  CountWindows(pos, w, k - 1) + ts * zs

\* _get_windows: the index-to-window LUT
_get_windows(pos, w) ==
    [window_keys |-> [k \in 1..Len(pos) |-> CountWindows(pos, w, k)],
     window_arrays |-> pos,
     window_norm_meta |-> [k \in 1..Len(pos) |-> _read_norm_meta(pos[k])],
     max_window |-> CountWindows(pos, w, Len(pos))]

\* __init__: channel indices are looked up in positions[0]
SlidingWindowDataset_init ==
    /\ status = "new"
    /\ IF \A i \in 1..Len(AllChannelNames(channels)) :
              HasChannel(positions[1], AllChannelNames(channels)[i])
       THEN LET lut == _get_windows(positions, z_window_size)
            IN  /\ source_ch_idx' =
                       [i \in 1..Len(channels["source"]) |->
                           get_channel_index(positions[1], channels["source"][i])]
                /\ target_ch_idx' =
                       IF "target" \in DOMAIN channels
                       THEN List([i \in 1..Len(channels["target"]) |->
                                get_channel_index(positions[1], channels["target"][i])])
                       ELSE None
                /\ window_keys' = lut.window_keys
                /\ window_arrays' = lut.window_arrays
                /\ window_norm_meta' = lut.window_norm_meta
                /\ max_window' = lut.max_window
                /\ status' = "ready"
       ELSE /\ status' = "failed"
            /\ UNCHANGED <<source_ch_idx, target_ch_idx, window_keys,
                           window_arrays, window_norm_meta, max_window>>
    /\ UNCHANGED <<positions, channels, z_window_size, transform, result>>
    /\ UNCHANGED collate_vars
    /\ UNCHANGED component_vars

\* __len__
DatasetLen == max_window

\* _find_window that does not subtract the windows of the positions before
_find_window_no_offset(index) ==
    LET window_idx == SortedInsertIndex(window_keys, index + 1)
    IN  IF window_idx >= Len(window_keys)
        THEN [raised |-> "IndexError"]
        ELSE LET w == At(window_keys, window_idx)
                 tz == index
                 k == ListIndex(window_keys, w)
             IN  [raised |-> "", img |-> At(window_arrays, k), tz |-> tz,
                  norm_meta |-> At(window_norm_meta, k)]

\* _find_window: the image array, the offset tz in it and its norm_meta
_find_window(index) ==
    LET window_idx == SortedInsertIndex(window_keys, index + 1)
    IN  IF window_idx >= Len(window_keys)
        THEN [raised |-> "IndexError"]
        ELSE LET w == At(window_keys, window_idx)
                 tz == IF window_idx > 0
                       THEN index - At(window_keys, window_idx - 1)
                       ELSE index
                 k == ListIndex(window_keys, w)
             IN  [raised |-> "", img |-> At(window_arrays, k), tz |-> tz,
                  norm_meta |-> At(window_norm_meta, k)]

\* _read_img_window that decomposes tz T-first (t varies fastest)
_read_img_window_t_first(img, ch_idx, tz) ==
    LET zs == img.slices - z_window_size + 1
    IN  IF zs = 0 THEN [raised |-> "ZeroDivisionError"]
        ELSE LET t == tz % img.frames
                 z == tz \div img.frames
                 ts == SliceIndices(t, t + 1, img.frames)
                 zz == SliceIndices(z, z + z_window_size, img.slices)
             IN  IF \E c \in 1..Len(ch_idx) : ch_idx[c] >= Len(img.channel_names)
                 THEN [raised |-> "IndexError"]
                 ELSE [raised |-> "",
                       images |-> [c \in 1..Len(ch_idx) |->
                                    Tensor([f \in 1..Len(ts) |->
                                             [k \in 1..Len(zz) |->
                                               Plane(img, ts[f], ch_idx[c], zz[k])]])],
                       index |-> Tuple(<<img.name, t, z>>)]

\* _read_img_window: one (C=1, Z, Y, X) tensor per channel index, and the
\* stack index (image name, t, z)
_read_img_window(img, ch_idx, tz) ==
    LET zs == img.slices - z_window_size + 1
    IN  IF zs = 0 THEN [raised |-> "ZeroDivisionError"]
        ELSE LET t == FloorDiv(tz + zs, zs) - 1
                 z == tz - t * zs
                 ts == SliceIndices(t, t + 1, img.frames)
                 zz == SliceIndices(z, z + z_window_size, img.slices)
             IN  IF \E c \in 1..Len(ch_idx) : ch_idx[c] >= Len(img.channel_names)
                 THEN [raised |-> "IndexError"]
                 ELSE [raised |-> "",
                       images |-> [c \in 1..Len(ch_idx) |->
                                    Tensor([f \in 1..Len(ts) |->
                                             [k \in 1..Len(zz) |->
                                               Plane(img, ts[f], ch_idx[c], zz[k])]])],
                       index |-> Tuple(<<img.name, t, z>>)]

Dict(map) == [type |-> "dict", map |-> map]

\* dict(zip(ch_names, images)): a later duplicate name overwrites an earlier one
ZipDict(ch_names, images) ==
    [n \in {ch_names[i] : i \in 1..Len(ch_names)} |->
        images[CHOOSE i \in 1..Len(ch_names) :
                  ch_names[i] = n /\ \A j \in (i + 1)..Len(ch_names) : ch_names[j] # n]]

\* self.transform(sample_images): None, a transform returning one mapping
\* (a deterministic crop), or a multi-sample transform returning num_samples
\* mappings (one per crop)
ApplyTransform(tr, sample_images) ==
    IF tr.kind = "None" THEN sample_images
    ELSE IF tr.kind = "single"
    THEN Dict([k \in DOMAIN sample_images.map |-> Crop(sample_images.map[k], 0)])
    ELSE List([j \in 1..tr.num_samples |->
                 Dict([k \in DOMAIN sample_images.map |-> Crop(sample_images.map[k], j)])])

\* torch.stack([im[ch][0] for ch in names]) on one mapping
StackOne(im, names) ==
    IF \E c \in 1..Len(names) : names[c] \notin DOMAIN im.map
    THEN [raised |-> "KeyError"]
    ELSE IF \E c \in 1..Len(names) : Len(im.map[names[c]].data) = 0
    THEN [raised |-> "IndexError"]
    ELSE [raised |-> "",
          value |-> Tensor([c \in 1..Len(names) |-> At(im.map[names[c]].data, 0)])]

\* _stack_channels that keeps only the first crop of a multi-sample transform
_stack_channels_first_crop(sample_images, key) ==
    IF sample_images.type # "list"
    THEN StackOne(sample_images, channels[key])
    ELSE StackOne(sample_images.items[1], channels[key])

\* _stack_channels: one multi-channel tensor, or a list of them (one per crop)
_stack_channels(sample_images, key) ==
    IF sample_images.type # "list"
    THEN StackOne(sample_images, channels[key])
    ELSE LET each == [j \in 1..Len(sample_images.items) |->
                         StackOne(sample_images.items[j], channels[key])]
         IN  IF \E j \in 1..Len(each) : each[j].raised # ""
             THEN [raised |-> each[CHOOSE j \in 1..Len(each) : each[j].raised # ""].raised]
             ELSE [raised |-> "",
                   value |-> List([j \in 1..Len(each) |-> each[j].value])]

\* "weight" in sample_images, then del sample_images["weight"]: a list of
\* mappings has no element equal to "weight"
DelWeight(sample_images) ==
    IF sample_images.type = "dict" /\ "weight" \in DOMAIN sample_images.map
    THEN Dict([k \in DOMAIN sample_images.map \ {"weight"} |-> sample_images.map[k]])
    ELSE sample_images

\* ch_idx of __getitem__: the channel indices the window is read through
UsedChannelIdx ==
    IF target_ch_idx.type # "NoneType" THEN source_ch_idx \o target_ch_idx.items
    ELSE source_ch_idx

\* __getitem__(index): the sample, or the exception raised
GetItemOutcome(index) ==
    LET found == _find_window(index)
    IN  IF found.raised # "" THEN [raised |-> found.raised]
        ELSE
        LET ch_names == AllChannelNames(channels)
            ch_idx == UsedChannelIdx
            read == _read_img_window(found.img, ch_idx, found.tz)
        IN  IF read.raised # "" THEN [raised |-> read.raised]
            ELSE
            LET zipped == ZipDict(ch_names, read.images)
                keys == DOMAIN zipped
                        \cup (IF target_ch_idx.type # "NoneType" THEN {"weight"} ELSE {})
                        \cup (IF found.norm_meta.type # "NoneType" THEN {"norm_meta"} ELSE {})
                sample_images ==
                    Dict([k \in keys |->
                           IF k = "weight" THEN zipped[At(channels["target"], 0)]
                           ELSE IF k = "norm_meta" THEN found.norm_meta
                           ELSE zipped[k]])
                transformed == DelWeight(ApplyTransform(transform, sample_images))
                source == _stack_channels(transformed, "source")
                target == IF target_ch_idx.type # "NoneType"
                          THEN _stack_channels(transformed, "target")
                          ELSE [raised |-> ""]
            IN  IF source.raised # "" THEN [raised |-> source.raised]
                ELSE IF target.raised # "" THEN [raised |-> target.raised]
                ELSE [raised |-> "",
                      images |-> transformed,
                      sample |->
                        [k \in {"index", "source", "norm_meta"}
                               \cup (IF target_ch_idx.type # "NoneType"
                                     THEN {"target"} ELSE {}) |->
                           IF k = "index" THEN read.index
                           ELSE IF k = "source" THEN source.value
                           ELSE IF k = "norm_meta" THEN found.norm_meta
                           ELSE target.value]]

\* the flat indices tried: some below 0, all valid ones, some past the end
IndexRange == (0 - MaxOut)..(Max(max_window, 0) + MaxOut)

\* one __getitem__(index) call on a constructed dataset
GetItem(index) ==
    /\ status = "ready"
    /\ result' = [type |-> "outcome", index |-> index,
                  outcome |-> GetItemOutcome(index)]
    /\ UNCHANGED <<positions, channels, z_window_size, transform, source_ch_idx,
                   target_ch_idx, window_keys, window_arrays, window_norm_meta,
                   max_window, status>>
    /\ UNCHANGED collate_vars
    /\ UNCHANGED component_vars

----------------------------------------------------------------------------
(* viscy.data.hcs._collate_samples (the same code as in hcs_ram).          *)

\* GatherKey that takes only the first tensor of a list-valued entry
RECURSIVE GatherKeyFirstCrop(_, _, _)
GatherKeyFirstCrop(b, key, n) ==
    IF n = 0 THEN <<>>
    ELSE LET sample == b[n]
         IN  IF IsSequence(sample[key])
             THEN Append(GatherKeyFirstCrop(b, key, n - 1), sample[key].items[1])
             ELSE Append(GatherKeyFirstCrop(b, key, n - 1), sample[key])

\* data after the inner loop has run over the first n samples: a value that
\* is a Sequence is extended into data, any other value is appended
RECURSIVE GatherKey(_, _, _)
GatherKey(b, key, n) ==
    IF n = 0 THEN <<>>
    ELSE LET sample == b[n]
         IN  IF IsSequence(sample[key])
             THEN GatherKey(b, key, n - 1) \o sample[key].items
             ELSE Append(GatherKey(b, key, n - 1), sample[key])

\* monai's collate_meta_tensor, chosen by the first element of data: tensors
\* are stacked along a new leading batch dimension, in list order; for any
\* other element it is torch's default_collate, which returns a batch that
\* starts with a string as the list it is and makes a tensor of numbers
collate_meta_tensor(data) ==
    IF data[1].type = "Tensor" THEN Tensor([i \in 1..Len(data) |-> data[i].data])
    ELSE IF data[1].type = "str" THEN List(data)
    ELSE Tensor([i \in 1..Len(data) |-> data[i].value])

\* _collate_samples: the batch sample, or the exception raised
_collate_samples(b) ==
    IF Len(b) = 0 THEN [raised |-> "IndexError"]
    ELSE IF \E key \in DOMAIN b[1] : \E n \in 1..Len(b) : key \notin DOMAIN b[n]
    THEN [raised |-> "KeyError"]
    ELSE [raised |-> "",
          value |-> [key \in DOMAIN b[1] |->
                       collate_meta_tensor(GatherKey(b, key, Len(b)))]]

\* one _collate_samples(batch) call
CollateSamples ==
    /\ collated.type = "NoneType"
    /\ Len(batch) > 0
    /\ collated' = [type |-> "outcome", outcome |-> _collate_samples(batch)]
    /\ UNCHANGED batch
    /\ UNCHANGED dataset_vars
    /\ UNCHANGED component_vars

----------------------------------------------------------------------------
(* Inputs.                                                                 *)

\* channel orders found in the positions of a store
Layouts == {<<"Phase", "Nuclei">>, <<"Nuclei", "Phase">>, <<"Phase">>}

\* channel maps given to a dataset
ChannelMaps ==
    {[source |-> <<"Phase">>],
     [source |-> <<"Phase">>, target |-> <<"Nuclei">>],
     [source |-> <<"Nuclei", "Phase">>],
     [source |-> <<"Phase">>, target |-> <<"Nuclei", "Phase">>]}

\* transforms given to a dataset
Transforms ==
    {[kind |-> "None"], [kind |-> "single"]}
    \cup {[kind |-> "multi", num_samples |-> k] : k \in 1..MaxCrops}

NormMeta == [type |-> "dict", of |-> "normalization"]

\* lists of 1..n positions whose shape, channel order and metadata are drawn
\* from the given sets; a position is named by its place in the store
PositionLists(n, Ts, Zs, Ls, Ms) ==
    UNION {{[i \in 1..m |-> [name |-> i, frames |-> f[i].frames, slices |-> f[i].slices,
                             channel_names |-> f[i].channel_names,
                             norm_meta |-> meta]] :
             f \in [1..m -> [frames : Ts, slices : Zs, channel_names : Ls]],
             meta \in Ms} :
           m \in 1..n}

NoBatch == <<>>

\* no data module, hook call, cached dataset or normalization in this run
OthersIdle == workers = None /\ cdm = None /\ cds = None /\ tiling = None

ComponentsIdle == dm = None /\ hook = None /\ cd = None /\ nz = None /\ OthersIdle

\* the arguments of a dataset not constructed yet
InitDataset(ps, ws, cms, trs) ==
    /\ positions \in ps
    /\ z_window_size \in ws
    /\ channels \in cms
    /\ transform \in trs
    /\ source_ch_idx = <<>>
    /\ target_ch_idx = None
    /\ window_keys = <<>>
    /\ window_arrays = <<>>
    /\ window_norm_meta = <<>>
    /\ max_window = 0
    /\ status = "new"
    /\ result = None
    /\ batch = NoBatch
    /\ collated = None
    /\ ComponentsIdle

\* stores whose positions differ in frames and slices, read without transform
InitWindows ==
    InitDataset(PositionLists(MaxPos, 1..MaxT, 1..MaxZ, {<<"Phase", "Nuclei">>}, {None}),
                1..MaxZ,
                {[source |-> <<"Phase">>], [source |-> <<"Phase">>, target |-> <<"Nuclei">>]},
                {[kind |-> "None"]})

\* stores whose positions differ in channel order, read with every channel
\* map and transform
InitContent ==
    InitDataset(PositionLists(MaxPos, {1}, {MaxZ}, Layouts, {None, NormMeta}),
                1..MaxZ, ChannelMaps, Transforms)

Init == InitWindows \/ InitContent

Next ==
    \/ SlidingWindowDataset_init
    \/ \E index \in IndexRange : GetItem(index)

Spec == Init /\ [][Next]_vars

----------------------------------------------------------------------------
(* Batches for _collate_samples: every sample of a batch holds single       *)
(* tensors or lists of 1..MaxCrops tensors; tensor <<i, key, j>> is crop j  *)
(* (0 for a single tensor) of the value of key in sample i.                 *)

SampleKeySets == {{"source"}, {"source", "target"}}

SampleValue(i, key, crops) ==
    IF crops = 0 THEN Tensor(<<i, key, 0>>)
    ELSE List([j \in 1..crops |-> Tensor(<<i, key, j>>)])

Batches ==
    UNION {{[i \in 1..n |-> [key \in f[i].keys |-> SampleValue(i, key, f[i].crops)]] :
             f \in [1..n -> [keys : SampleKeySets, crops : 0..MaxCrops]]} :
           n \in 1..MaxBatch}

InitCollate ==
    /\ batch \in Batches
    /\ collated = None
    /\ positions = <<>>
    /\ z_window_size = 1
    /\ channels = [source |-> <<>>]
    /\ transform = [kind |-> "None"]
    /\ source_ch_idx = <<>>
    /\ target_ch_idx = None
    /\ window_keys = <<>>
    /\ window_arrays = <<>>
    /\ window_norm_meta = <<>>
    /\ max_window = 0
    /\ status = "none"
    /\ result = None
    /\ ComponentsIdle

NextCollate == CollateSamples

SpecCollate == InitCollate /\ [][NextCollate]_vars

----------------------------------------------------------------------------
(* Properties of the window index.                                         *)

\* the dataset is constructed
Ready == status = "ready"

\* every position has at least z_window_size slices
EnoughSlices == \A i \in 1..Len(positions) : positions[i].slices >= z_window_size

\* windows of one position: frames * (slices - w + 1)
WindowsOf(fov, w) == fov.frames * (fov.slices - w + 1)

\* the sum of WindowsOf over positions i..k
RECURSIVE SumWindows(_, _, _, _)
SumWindows(pos, w, i, k) ==
    IF i > k THEN 0 ELSE WindowsOf(pos[i], w) + SumWindows(pos, w, i + 1, k)

\* C1: when every position has at least z_window_size slices, the length of
\* the dataset is the sum over the positions of T * (Z - w + 1), and entry k
\* of window_keys is that sum over the first k positions.
C1_WindowCount ==
    (Ready /\ EnoughSlices) =>
        /\ Len(window_keys) = Len(positions)
        /\ DatasetLen = SumWindows(positions, z_window_size, 1, Len(positions))
        /\ \A k \in 1..Len(positions) :
               window_keys[k] = SumWindows(positions, z_window_size, 1, k)

\* C1 witness: a constructed dataset over two positions that differ in frames
\* and in slices, each with at least z_window_size slices
C1_Witness ==
    /\ Ready /\ EnoughSlices
    /\ Len(positions) = 2
    /\ positions[1].frames # positions[2].frames
    /\ positions[1].slices # positions[2].slices
    /\ window_keys[1] < window_keys[2]

\* the window a flat index resolves to: _find_window, then the stack index
\* of _read_img_window (which does not depend on the channel indices read)
WindowOf(index) ==
    LET found == _find_window(index)
    IN  IF found.raised # "" THEN found
        ELSE LET read == _read_img_window(found.img, <<>>, found.tz)
             IN  IF read.raised # "" THEN read
                 ELSE [raised |-> "", img |-> found.img, tz |-> found.tz,
                       p |-> read.index.items[1], t |-> read.index.items[2],
                       z |-> read.index.items[3]]

\* the flat index of window (p, t, z): the cumulative count of the positions
\* before p, plus t * (Z - w + 1) + z
FlatIndex(p, t, z) ==
    (IF p > 1 THEN window_keys[p - 1] ELSE 0)
    + t * (window_arrays[p].slices - z_window_size + 1) + z

ValidIndices == 0..(DatasetLen - 1)

\* C2: when every position has at least z_window_size slices, every flat index
\* in [0, length) resolves to one (position, t, z), no two flat indices resolve
\* to the same triple, and the flat index recomputed from the triple is the
\* original one; __getitem__ reports that triple as the sample's index.
C2_Bijection ==
    (Ready /\ EnoughSlices) =>
        /\ \A i \in ValidIndices :
               LET win == WindowOf(i)
               IN  /\ win.raised = ""
                   /\ win.p \in 1..Len(positions)
                   /\ FlatIndex(win.p, win.t, win.z) = i
        /\ Cardinality({<<WindowOf(i).p, WindowOf(i).t, WindowOf(i).z>> : i \in ValidIndices})
               = Cardinality(ValidIndices)
        /\ (/\ result.type # "NoneType"
            /\ result.index \in ValidIndices
            /\ result.outcome.raised = "") =>
               LET win == WindowOf(result.index)
               IN  result.outcome.sample["index"] = Tuple(<<win.p, win.t, win.z>>)

\* C2 witness: a sample was returned for a window of the second position that
\* is neither at its first frame nor at its first z
C2_Witness ==
    /\ Ready /\ EnoughSlices
    /\ result.type # "NoneType"
    /\ result.index \in ValidIndices
    /\ result.outcome.raised = ""
    /\ result.outcome.sample["index"].items[1] = 2
    /\ result.outcome.sample["index"].items[2] > 0
    /\ result.outcome.sample["index"].items[3] > 0

\* C3: when every position has at least z_window_size slices, the offset tz of
\* every valid flat index is decomposed Z-first, t = tz div zs and z = tz mod zs
\* with zs = Z - w + 1, so 0 <= t < T, 0 <= z and z + w <= Z; the next flat
\* index of the same position has z + 1, or t + 1 and z = 0 at the end of a frame;
\* the planes read are the w planes z .. z + w - 1 of frame t.
C3_ZFirst ==
    (Ready /\ EnoughSlices) =>
        /\ \A i \in ValidIndices :
               LET win == WindowOf(i)
                   zs == win.img.slices - z_window_size + 1
               IN  /\ win.t = win.tz \div zs
                   /\ win.z = win.tz % zs
                   /\ 0 <= win.t /\ win.t < win.img.frames
                   /\ 0 <= win.z /\ win.z + z_window_size <= win.img.slices
                   /\ (i + 1 \in ValidIndices) =>
                          LET next == WindowOf(i + 1)
                          IN  (next.p = win.p) =>
                                  IF win.z + 1 < zs
                                  THEN next.t = win.t /\ next.z = win.z + 1
                                  ELSE next.t = win.t + 1 /\ next.z = 0
        /\ (/\ result.type # "NoneType"
            /\ result.index \in ValidIndices
            /\ result.outcome.raised = ""
            /\ transform.kind = "None") =>
               LET win == WindowOf(result.index)
                   src == result.outcome.sample["source"].data
               IN  \A c \in 1..Len(src) :
                       /\ Len(src[c]) = z_window_size
                       /\ \A k \in 1..z_window_size :
                              /\ src[c][k][2] = win.t
                              /\ src[c][k][4] = win.z + k - 1

\* C3 witness: a sample was returned for the window that follows the last z of
\* a frame, in a position with several windows per frame
C3_Witness ==
    /\ Ready /\ EnoughSlices
    /\ result.type # "NoneType"
    /\ result.index \in ValidIndices
    /\ result.outcome.raised = ""
    /\ transform.kind = "None"
    /\ WindowOf(result.index).img.slices - z_window_size + 1 > 1
    /\ WindowOf(result.index).t = 1
    /\ WindowOf(result.index).z = 0
    /\ WindowOf(result.index - 1).t = 0

\* C4: a dataset that was constructed holds no position with fewer slices than
\* z_window_size in its window index, its cumulative window counts increase
\* strictly, and every position counts a positive number of windows.
C4_ShortPositionRejected ==
    Ready =>
        /\ \A k \in 1..Len(window_arrays) : window_arrays[k].slices >= z_window_size
        /\ \A k \in 1..Len(window_keys) :
               window_keys[k] > (IF k > 1 THEN window_keys[k - 1] ELSE 0)

----------------------------------------------------------------------------
(* Properties of the samples.                                              *)

\* __getitem__ was called and returned a sample
Returned == result.type # "NoneType" /\ result.outcome.raised = ""

\* C5: whenever a sample is returned, every channel named in the channel map
\* is present in the position the window lies in, and the index its data was
\* read through is the index of that channel name in that position.
C5_ChannelLookup ==
    (Ready /\ Returned) =>
        LET fov == positions[result.outcome.sample["index"].items[1]]
            ch_names == AllChannelNames(channels)
        IN  \A c \in 1..Len(ch_names) :
                /\ HasChannel(fov, ch_names[c])
                /\ get_channel_index(fov, ch_names[c]) = UsedChannelIdx[c]

\* C6: on a dataset whose positions all have at least z_window_size slices,
\* __getitem__(index) with index < 0 or index >= len raises IndexError.
C6_OutOfRangeRaises ==
    (/\ Ready /\ EnoughSlices
     /\ result.type # "NoneType"
     /\ result.index \notin ValidIndices) => result.outcome.raised = "IndexError"

\* the stacked tensor of the channels `names` of window win, read untransformed
ExpectedStack(win, names) ==
    Tensor([c \in 1..Len(names) |->
             [k \in 1..z_window_size |-> <<win.p, win.t, names[c], win.z + k - 1>>]])

\* C7: without transform, on a dataset whose positions all have at least
\* z_window_size slices, the sample of a valid index has a 'source' tensor of
\* shape (source channels, z_window_size, Y, X) whose c-th channel is the data
\* of the c-th source channel name at [t, channel, z : z + w], and a 'target'
\* built the same way exactly when the channel map has a 'target' key.
C7_SampleContent ==
    (/\ Ready /\ EnoughSlices /\ Returned
     /\ transform.kind = "None"
     /\ result.index \in ValidIndices) =>
        LET win == WindowOf(result.index)
            sample == result.outcome.sample
        IN  /\ sample["source"] = ExpectedStack(win, channels["source"])
            /\ ("target" \in DOMAIN sample) <=> ("target" \in DOMAIN channels)
            /\ ("target" \in DOMAIN sample) =>
                   sample["target"] = ExpectedStack(win, channels["target"])

\* the stacked tensor `stacked` holds crop number `crop` of each channel of `names`
BuiltFromCrop(stacked, names, crop) ==
    /\ stacked.type = "Tensor"
    /\ Len(stacked.data) = Len(names)
    /\ \A c \in 1..Len(names) : stacked.data[c][1] = crop

\* the value of one role of a sample follows the shape the transform returned
FollowsTransform(value, names) ==
    IF transform.kind = "multi"
    THEN /\ value.type = "list"
         /\ Len(value.items) = transform.num_samples
         /\ \A j \in 1..transform.num_samples : BuiltFromCrop(value.items[j], names, j)
    ELSE IF transform.kind = "single"
    THEN BuiltFromCrop(value, names, 0)
    ELSE value.type = "Tensor" /\ Len(value.data) = Len(names)

\* C8: when the transform returns a list of k mappings, 'source' (and 'target',
\* when present) is a list of exactly k stacked tensors, the j-th built from
\* the j-th crop; with a single mapping or no transform each is one tensor.
C8_ListOfCrops ==
    (Ready /\ Returned) =>
        /\ FollowsTransform(result.outcome.sample["source"], channels["source"])
        /\ ("target" \in DOMAIN channels) =>
               /\ "target" \in DOMAIN result.outcome.sample
               /\ FollowsTransform(result.outcome.sample["target"], channels["target"])

\* C8 witness: a sample with source and target was returned by a dataset whose
\* transform yields at least two crops
C8_Witness ==
    /\ Ready /\ Returned
    /\ transform.kind = "multi"
    /\ transform.num_samples >= 2
    /\ "target" \in DOMAIN channels
    /\ Len(result.outcome.sample["target"].items) = transform.num_samples

----------------------------------------------------------------------------
(* Properties of _collate_samples.                                         *)

\* _collate_samples was called and returned a batch
Collated == collated.type # "NoneType" /\ collated.outcome.raised = ""

\* the tensors of key in sample i, in order
ElementsOf(b, i, key) ==
    IF IsSequence(b[i][key]) THEN b[i][key].items ELSE <<b[i][key]>>

\* the number of tensors of key in samples i..Len(b)
RECURSIVE BatchLength(_, _, _)
BatchLength(b, key, i) ==
    IF i > Len(b) THEN 0
    ELSE Len(ElementsOf(b, i, key)) + BatchLength(b, key, i + 1)

\* C9: for every key, the batched entry has one element per tensor of the
\* samples (1 for a single tensor, the list length for a list), every element
\* is a tensor of that key, and the elements are in sample order, list
\* elements in list order.
C9_CollateLength ==
    Collated =>
        \A key \in DOMAIN collated.outcome.value :
            LET out == collated.outcome.value[key].data
            IN  /\ Len(out) = BatchLength(batch, key, 1)
                /\ \A a \in 1..Len(out) :
                       \E i \in 1..Len(batch) :
                           \E j \in 1..Len(ElementsOf(batch, i, key)) :
                               out[a] = ElementsOf(batch, i, key)[j].data
                /\ \A a, b \in 1..Len(out) :
                       a < b => \/ out[a][1] < out[b][1]
                                \/ out[a][1] = out[b][1] /\ out[a][3] < out[b][3]

\* C9 witness: three samples with lists of two tensors were collated into a
\* batch of six
C9_Witness ==
    /\ Collated
    /\ Len(batch) = 3
    /\ \A i \in 1..3 : batch[i]["source"].type = "list" /\ Len(batch[i]["source"].items) = 2
    /\ Len(collated.outcome.value["source"].data) = 6

\* C10: collation fails whenever two samples of the batch differ in their key
\* sets.
C10_KeySetsMustMatch ==
    (/\ collated.type # "NoneType"
     /\ \E m, n \in 1..Len(batch) : DOMAIN batch[m] # DOMAIN batch[n]) =>
        collated.outcome.raised # ""


----------------------------------------------------------------------------
(* The data modules: viscy.data.hcs.HCSDataModule (kind "HCS"),            *)
(* viscy.data.hcs_ram.CachedDataModule (kind "Cached") and                 *)
(* viscy.light.data.HCSDataModule (kind "Light").                          *)
(*                                                                         *)
(* The store at data_path holds dm.plate positions, named by their index   *)
(* 0 .. plate-1 in plate.positions().  Every open_ome_zarr call yields a   *)
(* new store handle; dm.stores[s] is "open" or "closed".  A dataset object *)
(* is [id, positions, store]: the positions it was given and the handle    *)
(* they were read from.  A dataset replaced in an attribute of the module  *)
(* stays alive while something else (a DataLoader) still refers to it, and *)
(* is destroyed at some later point.  Scale ranges of RandAffined are      *)
(* taken to be valid, and the z-window of the datasets is not represented. *)

\* largest number of positions in the store of a data module
MaxStore == 3
\* largest number of setup calls on one data module
MaxSetups == 2
\* largest batch_size of a data module
MaxBatchSize == 2

\* the stage names passed to setup; "tune" stands for any other name
Stages == {"fit", "validate", "test", "predict", "tune"}

DatasetAttrs == {"train_dataset", "val_dataset", "test_dataset", "predict_dataset"}

Dataset(id, ps, store) ==
    [type |-> "Dataset", id |-> id, positions |-> ps, store |-> store]

\* torch.randperm(n): any permutation of 0 .. n-1
randperm(n) ==
    {p \in [1..n -> 0..(n - 1)] : \A i, j \in 1..n : p[i] = p[j] => i = j}

\* int(len(positions) * self.split_ratio) for the ratio num/den
NumTrainFovs(n, split_ratio) == (n * split_ratio.num) \div split_ratio.den

\* positions[:k]
ListPrefix(l, k) == SubSeq(l, 1, Min(Max(k, 0), Len(l)))

ListSuffixSkipOne(l, k) == SubSeq(l, Min(Max(k, 0), Len(l)) + 2, Len(l))

\* positions[k:]
ListSuffix(l, k) == SubSeq(l, Min(Max(k, 0), Len(l)) + 1, Len(l))

\* raise an exception out of setup
Raise(m, exc) == [m EXCEPT !.last.raised = exc]

Raised(m) == m.last.raised # ""

\* open_ome_zarr(data_path): one more open store handle
open_ome_zarr(m) == [m EXCEPT !.stores = Append(@, "open"), !.last.opened = TRUE]

\* self.<attr> = SlidingWindowDataset(ps, ...) or CachedDataset(ps, ...) over
\* positions of the newest store handle; the constructor reads positions[0]
\* and raises IndexError on an empty list.  The dataset held by the
\* attribute before loses that reference.
AssignDataset(m, attr, ps) ==
    IF Len(ps) = 0 THEN Raise(m, "IndexError")
    ELSE LET old == m[attr]
             new == Dataset(m.created + 1, ps, Len(m.stores))
         IN  [m EXCEPT ![attr] = new,
                       !.created = @ + 1,
                       !.unreferenced =
                           IF old = None THEN @
                           ELSE @ \cup {[id |-> old.id, store |-> old.store]}]

\* the shuffle and the train/val split shared by the three fit stages
SplitDatasets(m, shuffled_indices) ==
    LET plate_positions == [i \in 1..m.plate |-> i - 1]
        shuffled == [i \in 1..Len(shuffled_indices) |->
                        At(plate_positions, shuffled_indices[i])]
        num_train_fovs == NumTrainFovs(Len(shuffled), m.split_ratio)
        drawn == [m EXCEPT !.last.shuffled_indices = shuffled_indices]
        train == AssignDataset(drawn, "train_dataset",
                               ListPrefix(shuffled, num_train_fovs))
    IN  IF Raised(train) THEN train
        ELSE AssignDataset(train, "val_dataset",
                           ListSuffix(shuffled, num_train_fovs))

\* the loop over self.augmentations in _train_transform; st is
\* [raised, train_patches_per_stack, z_scale_range]
RECURSIVE AugLoop(_, _, _, _)
AugLoop(kind, augs, batch_size, st) ==
    IF augs = <<>> \/ st.raised # "" THEN st
    ELSE LET aug == Head(augs)
             affine ==
                 IF kind = "HCS" /\ aug.kind = "RandAffined"
                 THEN IF st.z_scale_range
                      THEN [st EXCEPT !.raised = "ValueError"]
                      ELSE [st EXCEPT !.z_scale_range = TRUE]
                 ELSE st
             multi ==
                 IF affine.raised = "" /\ aug.kind = "MultiSample"
                 THEN IF batch_size % aug.num_samples # 0
                      THEN [affine EXCEPT !.raised = "ValueError"]
                      ELSE [affine EXCEPT !.train_patches_per_stack =
                                             PyInt(aug.num_samples)]
                 ELSE affine
         IN  AugLoop(kind, Tail(augs), batch_size, multi)

\* viscy.data.hcs.HCSDataModule._train_transform
HCSDataModule_train_transform(m) ==
    LET st == AugLoop("HCS", m.augmentations, m.batch_size,
                      [raised |-> "", train_patches_per_stack |-> PyInt(1),
                       z_scale_range |-> FALSE])
    IN  [m EXCEPT !.train_patches_per_stack = st.train_patches_per_stack,
                  !.last.raised = st.raised]

\* viscy.data.hcs_ram.CachedDataModule._train_transform
CachedDataModule_train_transform(m) ==
    LET st == AugLoop("Cached", m.augmentations, m.batch_size,
                      [raised |-> "",
                       train_patches_per_stack |-> m.train_patches_per_stack,
                       z_scale_range |-> FALSE])
    IN  [m EXCEPT !.train_patches_per_stack = st.train_patches_per_stack,
                  !.last.raised = st.raised]

AllPositions(m) == [i \in 1..m.plate |-> i - 1]

HCSDataModule_setup_fit_open_first(m, shuffled_indices) ==
    LET transformed == HCSDataModule_train_transform(open_ome_zarr(m))
    IN  IF Raised(transformed) THEN transformed
        ELSE SplitDatasets(transformed, shuffled_indices)

\* viscy.data.hcs.HCSDataModule._setup_fit
HCSDataModule_setup_fit(m, shuffled_indices) ==
    LET transformed == HCSDataModule_train_transform(m)
    IN  IF Raised(transformed) THEN transformed
        ELSE SplitDatasets(open_ome_zarr(transformed), shuffled_indices)

\* viscy.data.hcs.HCSDataModule.setup
HCSDataModule_setup(m, stage, shuffled_indices) ==
    IF stage \in {"fit", "validate"} THEN HCSDataModule_setup_fit(m, shuffled_indices)
    ELSE IF stage = "test"
         THEN AssignDataset(open_ome_zarr(m), "test_dataset", AllPositions(m))
    ELSE IF stage = "predict"
         THEN AssignDataset(open_ome_zarr(m), "predict_dataset", AllPositions(m))
    ELSE Raise(m, "NotImplementedError")

\* viscy.data.hcs_ram.CachedDataModule._setup_fit
CachedDataModule_setup_fit(m, shuffled_indices) ==
    LET transformed == CachedDataModule_train_transform(m)
    IN  IF Raised(transformed) THEN transformed
        ELSE SplitDatasets(open_ome_zarr(transformed), shuffled_indices)

CachedDataModule_setup_with_predict(m, stage, shuffled_indices) ==
    IF stage \in {"fit", "validate"}
    THEN CachedDataModule_setup_fit(m, shuffled_indices)
    ELSE IF stage = "predict"
         THEN AssignDataset(open_ome_zarr(m), "predict_dataset", AllPositions(m))
    ELSE Raise(m, "NotImplementedError")

\* viscy.data.hcs_ram.CachedDataModule.setup
CachedDataModule_setup(m, stage, shuffled_indices) ==
    IF stage \in {"fit", "validate"}
    THEN CachedDataModule_setup_fit(m, shuffled_indices)
    ELSE Raise(m, "NotImplementedError")

\* viscy.light.data.HCSDataModule.setup; norm_keys is bound in the fit
\* branch only
LightDataModule_setup(m, stage, shuffled_indices) ==
    IF stage \in {"fit", "validate"}
    THEN SplitDatasets(open_ome_zarr(m), shuffled_indices)
    ELSE IF stage = "predict"
         THEN IF m.normalize_source
              THEN Raise(open_ome_zarr(m), "UnboundLocalError")
              ELSE AssignDataset(open_ome_zarr(m), "predict_dataset", AllPositions(m))
    ELSE Raise(m, "NotImplementedError")

\* one setup(stage) call on the data module
Setup(stage) ==
    /\ dm.type = "DataModule"
    /\ dm.calls < MaxSetups
    /\ \E shuffled_indices \in
              IF stage \in {"fit", "validate"} THEN randperm(dm.plate) ELSE {<<>>} :
          LET called == [dm EXCEPT !.calls = @ + 1,
                                   !.last = [stage |-> stage, raised |-> "",
                                             shuffled_indices |-> <<>>,
                                             opened |-> FALSE]]
          IN  dm' = IF dm.kind = "HCS"
                    THEN HCSDataModule_setup(called, stage, shuffled_indices)
                    ELSE IF dm.kind = "Cached"
                    THEN CachedDataModule_setup(called, stage, shuffled_indices)
                    ELSE LightDataModule_setup(called, stage, shuffled_indices)
    /\ UNCHANGED <<hook, cd, nz>>
    /\ UNCHANGED other_vars
    /\ UNCHANGED dataset_vars
    /\ UNCHANGED collate_vars

\* the last reference to a replaced dataset goes away and the dataset is
\* destroyed; only viscy.light.data.SlidingWindowDataset has a __del__,
\* which closes the store of its first position
Destroy ==
    /\ dm.type = "DataModule"
    /\ \E o \in dm.unreferenced :
          dm' = [dm EXCEPT !.unreferenced = @ \ {o},
                           !.destroyed = @ \cup {o},
                           !.stores = IF dm.kind = "Light"
                                      THEN [@ EXCEPT ![o.store] = "closed"]
                                      ELSE @]
    /\ UNCHANGED <<hook, cd, nz>>
    /\ UNCHANGED other_vars
    /\ UNCHANGED dataset_vars
    /\ UNCHANGED collate_vars

\* self.batch_size = b: the caller (for instance a batch-size tuner)
\* assigns the public attribute between two setup calls
SetBatchSize(b) ==
    /\ dm.type = "DataModule"
    /\ dm.calls < MaxSetups
    /\ b # dm.batch_size
    /\ dm' = [dm EXCEPT !.batch_size = b]
    /\ UNCHANGED <<hook, cd, nz>>
    /\ UNCHANGED other_vars
    /\ UNCHANGED dataset_vars
    /\ UNCHANGED collate_vars

\* augmentations: a multi-crop transform is [kind |-> "MultiSample"] with
\* its cropper's num_samples
Aug(kind, num_samples) == [kind |-> kind, num_samples |-> num_samples]

AugmentationLists ==
    {<<>>, <<Aug("other", 0)>>, <<Aug("RandAffined", 0), Aug("RandAffined", 0)>>}
    \cup {<<Aug("MultiSample", k)>> : k \in 1..MaxCrops}
    \cup {<<Aug("RandAffined", 0), Aug("MultiSample", 1), Aug("MultiSample", k)>> :
            k \in 1..MaxCrops}

SplitRatios == {[num |-> 1, den |-> 2], [num |-> 4, den |-> 5], [num |-> 1, den |-> 5]}

\* a data module after __init__: no dataset attribute is set, and
\* train_patches_per_stack is not set either; frames is the number of
\* sliding windows of each position of the store, loader the outcome of the
\* last *_dataloader() call
DataModule(kind, plate, split_ratio, batch_size, augmentations, normalize_source) ==
    [type |-> "DataModule", kind |-> kind, plate |-> plate,
     split_ratio |-> split_ratio, batch_size |-> batch_size,
     augmentations |-> augmentations, normalize_source |-> normalize_source,
     train_dataset |-> None, val_dataset |-> None,
     test_dataset |-> None, predict_dataset |-> None,
     train_patches_per_stack |-> None,
     created |-> 0, unreferenced |-> {}, destroyed |-> {},
     stores |-> <<>>, calls |-> 0, last |-> None,
     frames |-> 1, loader |-> None]

\* stores and ratios vary, no augmentation
SplitModules ==
    {DataModule(kind, plate, r, 1, <<>>, FALSE) :
        kind \in {"HCS", "Cached", "Light"}, plate \in 1..MaxStore, r \in SplitRatios}

\* augmentations and batch sizes vary over a store of two positions
AugmentedModules ==
    {DataModule(kind, 2, [num |-> 1, den |-> 2], b, augs, FALSE) :
        kind \in {"HCS", "Cached"}, b \in 1..MaxBatchSize, augs \in AugmentationLists}
    \cup {DataModule("Light", 2, [num |-> 1, den |-> 2], 1, <<>>, TRUE)}

\* no SlidingWindowDataset and no _collate_samples call in this run
DatasetIdle ==
    /\ positions = <<>>
    /\ z_window_size = 1
    /\ channels = [source |-> <<>>]
    /\ transform = [kind |-> "None"]
    /\ source_ch_idx = <<>>
    /\ target_ch_idx = None
    /\ window_keys = <<>>
    /\ window_arrays = <<>>
    /\ window_norm_meta = <<>>
    /\ max_window = 0
    /\ status = "none"
    /\ result = None
    /\ batch = NoBatch
    /\ collated = None

InitModule ==
    /\ dm \in SplitModules \cup AugmentedModules
    /\ hook = None
    /\ cd = None
    /\ nz = None
    /\ OthersIdle
    /\ DatasetIdle

NextModule ==
    \/ \E stage \in Stages : Setup(stage)
    \/ \E b \in 1..MaxBatchSize : SetBatchSize(b)
    \/ Destroy

SpecModule == InitModule /\ [][NextModule]_vars


----------------------------------------------------------------------------
(* Properties of the data modules.                                         *)

Range(l) == {l[i] : i \in 1..Len(l)}

\* the last call on the data module was a setup of the fit or validate
\* stage that returned normally
FitSucceeded ==
    /\ dm.last # None
    /\ dm.last.stage \in {"fit", "validate"}
    /\ dm.last.raised = ""

\* floor(r * n) for the ratio r = num/den
FloorOfProduct(n, r) ==
    CHOOSE q \in 0..n : q * r.den <= n * r.num /\ (q + 1) * r.den > n * r.num

NotDivisible(m) ==
    \E i \in 1..Len(m.augmentations) :
        /\ m.augmentations[i].kind = "MultiSample"
        /\ m.batch_size % m.augmentations[i].num_samples # 0

\* the step is a setup(stage) call on the data module
SetupCalled(stage) == dm'.calls # dm.calls /\ dm'.last.stage = stage

\* C12: when a multi-sample augmentation has a num_samples that does not
\* divide batch_size, setup('fit') of HCSDataModule and of CachedDataModule
\* raises ValueError, opens no store, constructs no dataset, and leaves
\* train_dataset and val_dataset as they were before the call.
C12_NotDivisibleRaises ==
    [][(SetupCalled("fit") /\ dm.kind \in {"HCS", "Cached"} /\ NotDivisible(dm)) =>
           /\ dm'.last.raised = "ValueError"
           /\ dm'.stores = dm.stores
           /\ dm'.created = dm.created
           /\ dm'.train_dataset = dm.train_dataset
           /\ dm'.val_dataset = dm.val_dataset]_vars

\* a fit setup built both datasets, batch_size was then set to a value that
\* num_samples does not divide, and the next setup('fit') raised ValueError
C12_Witness ==
    /\ dm.last # None
    /\ dm.last.stage = "fit"
    /\ dm.last.raised = "ValueError"
    /\ ~dm.last.opened
    /\ NotDivisible(dm)
    /\ dm.train_dataset # None
    /\ dm.val_dataset # None


\* the stage names a data module does not support
UnsupportedStages(kind) ==
    IF kind = "HCS" THEN Stages \ {"fit", "validate", "test", "predict"}
    ELSE Stages \ {"fit", "validate"}

\* C13: setup(stage) with a stage the module does not support (HCSDataModule:
\* outside fit, validate, test, predict; CachedDataModule: outside fit,
\* validate) raises NotImplementedError, constructs no dataset and leaves the
\* train/val/test/predict dataset attributes unchanged.
C13_UnsupportedStage ==
    [][(/\ dm'.calls # dm.calls
        /\ dm.kind \in {"HCS", "Cached"}
        /\ dm'.last.stage \in UnsupportedStages(dm.kind)) =>
           /\ dm'.last.raised = "NotImplementedError"
           /\ dm'.created = dm.created
           /\ dm'.stores = dm.stores
           /\ \A attr \in DatasetAttrs : dm'[attr] = dm[attr]]_vars

\* a CachedDataModule that holds a train and a validation dataset was asked
\* for the predict stage and raised
C13_Witness ==
    /\ dm.kind = "Cached"
    /\ dm.last # None
    /\ dm.last.stage = "predict"
    /\ dm.last.raised = "NotImplementedError"
    /\ dm.train_dataset # None
    /\ dm.val_dataset # None
    /\ dm.predict_dataset = None


\* the dataset objects alive: held by an attribute of the module, or
\* replaced there and not destroyed yet
LiveDatasets ==
    {[id |-> dm[attr].id, store |-> dm[attr].store] :
        attr \in {a \in DatasetAttrs : dm[a] # None}}
    \cup dm.unreferenced

\* C20: the store handle of a dataset is open for the whole lifetime of the
\* dataset and closed when the dataset is destroyed: no live dataset has its
\* store closed by the destruction or replacement of another dataset, and
\* the store of every destroyed dataset has been closed.
C20_StoreLifetime ==
    /\ \A d \in LiveDatasets : dm.stores[d.store] = "open"
    /\ \A d \in dm.destroyed : dm.stores[d.store] = "closed"

----------------------------------------------------------------------------
(* viscy.data.hcs.HCSDataModule.on_before_batch_transfer                   *)
(*                                                                         *)
(* A batched tensor of shape (B, C, Z, Y, X) is Tensor(data) with          *)
(* data[b][c][z] the plane <<key, b, c, z>> (1-based in the model).  The   *)
(* dataloaders of the module yield Z = z_window_size, with a "target"      *)
(* entry in every stage but predict; the example input array is a bare     *)
(* tensor.  hook.batch is the argument as it was passed, hook.returned the *)
(* value returned (the same dict object, updated in place).                *)

Architectures == {"2D", "UNeXt2", "2.5D", "3D", "fcmae"}

\* self.target_2d of HCSDataModule.__init__
target_2d(architecture) ==
    IF architecture \in {"UNeXt2", "3D", "fcmae"} THEN FALSE ELSE TRUE

\* tensor[:, :, slice(start, stop)]
SliceZ(tensor, start, stop) ==
    Tensor([b \in 1..Len(tensor.data) |->
               [c \in 1..Len(tensor.data[b]) |->
                   LET zs == tensor.data[b][c]
                       sel == SliceIndices(start, stop, Len(zs))
                   IN  [k \in 1..Len(sel) |-> At(zs, sel[k])]]])

z_index_lower_center(w) == FloorDiv(w - 1, 2)

\* z_index = self.z_window_size // 2
z_index(w) == FloorDiv(w, 2)

on_before_batch_transfer(h) ==
    LET predicting ==
            IF h.trainer # None THEN h.trainer.predicting ELSE FALSE
    IN  IF predicting \/ h.batch.type = "Tensor" THEN h.batch
        ELSE IF h.target_2d
             THEN Dict([h.batch.map EXCEPT
                           !["target"] = SliceZ(@, z_index(h.z_window_size),
                                                z_index(h.z_window_size) + 1)])
        ELSE h.batch

\* one on_before_batch_transfer(batch, dataloader_idx) call
OnBeforeBatchTransfer ==
    /\ hook.type = "Hook"
    /\ hook.returned = None
    /\ hook' = [hook EXCEPT !.returned = on_before_batch_transfer(hook)]
    /\ UNCHANGED <<dm, cd, nz>>
    /\ UNCHANGED other_vars
    /\ UNCHANGED dataset_vars
    /\ UNCHANGED collate_vars

BatchTensor(key, b, c, z) ==
    Tensor([i \in 1..b |-> [j \in 1..c |-> [k \in 1..z |-> <<key, i, j, k>>]]])

\* the batches a stage yields: source and target of z extent z_window_size
\* (no target in the predict stage), or a bare example input tensor
HookBatches(w, predicting) ==
    {BatchTensor("example", 1, 1, w)}
    \cup {Dict([key \in (IF predicting THEN {"source"} ELSE {"source", "target"}) |->
                   BatchTensor(key, b, c, w)]) :
            b \in 1..MaxBatch, c \in 1..2}

Trainers == {None, [type |-> "Trainer", predicting |-> FALSE],
             [type |-> "Trainer", predicting |-> TRUE]}

Hooks ==
    UNION {{[type |-> "Hook", architecture |-> a, target_2d |-> target_2d(a),
             z_window_size |-> w, trainer |-> tr, batch |-> bt, returned |-> None] :
              bt \in HookBatches(w, tr # None /\ tr.predicting)} :
           a \in Architectures, w \in 1..MaxZ, tr \in Trainers}

InitHook ==
    /\ hook \in Hooks
    /\ dm = None
    /\ cd = None
    /\ nz = None
    /\ OthersIdle
    /\ DatasetIdle

NextHook == OnBeforeBatchTransfer

SpecHook == InitHook /\ [][NextHook]_vars

----------------------------------------------------------------------------
(* Properties of on_before_batch_transfer.                                 *)

HookPredicting == hook.trainer # None /\ hook.trainer.predicting

\* C14: with a 2D target (architecture 2D or 2.5D) and a trainer that is not
\* predicting, the target of a batch is replaced by its single center z-slice
\* at index z_window_size // 2 and every other entry is unchanged; when
\* predicting, for a bare tensor, or for UNeXt2, 3D and fcmae the batch is
\* returned unchanged.
C14_CenterSlice ==
    hook.returned # None =>
        IF /\ hook.architecture \in {"2D", "2.5D"}
           /\ ~HookPredicting
           /\ hook.batch.type = "dict"
        THEN LET before == hook.batch.map
                 after == hook.returned.map
                 center == hook.z_window_size \div 2
             IN  /\ hook.returned.type = "dict"
                 /\ DOMAIN after = DOMAIN before
                 /\ \A key \in DOMAIN before \ {"target"} : after[key] = before[key]
                 /\ Len(after["target"].data) = Len(before["target"].data)
                 /\ \A b \in 1..Len(before["target"].data) :
                        /\ Len(after["target"].data[b]) = Len(before["target"].data[b])
                        /\ \A c \in 1..Len(before["target"].data[b]) :
                               after["target"].data[b][c] =
                                   <<before["target"].data[b][c][center + 1]>>
        ELSE hook.returned = hook.batch

\* a 2.5D module with the largest z-window sliced the target of a full batch
\* during fitting
C14_Witness ==
    /\ hook.returned # None
    /\ hook.architecture = "2.5D"
    /\ hook.z_window_size = MaxZ
    /\ hook.trainer = [type |-> "Trainer", predicting |-> FALSE]
    /\ hook.batch.type = "dict"
    /\ Len(hook.batch.map["target"].data) = MaxBatch
    /\ hook.returned # hook.batch


----------------------------------------------------------------------------
(* viscy.data.hcs_ram.CachedDataset                                        *)
(*                                                                         *)
(* The source file holds both sides of an unresolved merge: "HEAD" keeps   *)
(* one pre-allocated cache tensor, "parent" a dictionary keyed by position *)
(* name.  cd.variant says which side the class was built from.  A position *)
(* of the store carries the dtype of its array besides the fields above;   *)
(* Y and X are the same for every position and are not represented, so a   *)
(* shape is (positions, T, channels, Z).  An array element converted to a  *)
(* dtype is AsType(element, dtype).  cd.reads[i] counts the reads of the   *)
(* array of positions[i] from the store.                                   *)

\* largest number of __getitem__ calls on one CachedDataset
MaxGets == 2

\* numpy_to_torch_dtype
numpy_to_torch_dtype ==
    [d \in {"float32", "float64", "int32", "int64", "uint8", "uint16"} |->
        CASE d = "float32" -> "float32"
          [] d = "float64" -> "float64"
          [] d = "int32" -> "int32"
          [] d = "int64" -> "int64"
          [] d = "uint8" -> "int8"
          [] d = "uint16" -> "int16"]

\* dict.get(key, default)
DictGet(d, key, default) == IF key \in DOMAIN d THEN d[key] ELSE default

\* an element of the array of a position: the plane it belongs to, the dtype
\* it is stored in, and the dtypes it was converted to since it was read
Element(plane, dtype) == [of |-> plane, dtype |-> dtype, casts |-> <<>>]

\* ndarray.astype(dtype), or the dtype conversion of a tensor copy
AsType(x, dtype) == [x EXCEPT !.casts = Append(@, dtype)]

\* raise an exception out of __init__
FailInit(c, exc) == [c EXCEPT !.status = "failed", !.raised = exc]

\* pos after the loop "for pos in self.positions": the last position
LoopVariableAfterLoop(ps) == ps[Len(ps)]

\* CachedDataset._position_mapping
CachedDataset_position_mapping(c) ==
    LET keyed == [c EXCEPT
                     !.position_keys = [i \in 1..Len(c.positions) |-> c.positions[i].name],
                     !.norm_meta_dict = [i \in 1..Len(c.positions) |->
                                            _read_norm_meta(c.positions[i])]]
        pos == LoopVariableAfterLoop(c.positions)
    IN  IF c.variant = "HEAD"
        THEN [keyed EXCEPT
                 !.position_shape_zyx = pos.slices,
                 !._cache_dtype = DictGet(numpy_to_torch_dtype, pos.dtype, "float32")]
        ELSE keyed

\* pos.data.oindex[slice(t, t + 1), channel_index, :] for t = 0, converted
\* to float32 when it is not float32: one z-list of planes per channel
ReadPosition(pos, channel_index) ==
    [ch \in 1..Len(channel_index) |->
        [z \in 1..pos.slices |->
            LET plane == Element(Plane(pos, 0, channel_index[ch], z - 1), pos.dtype)
            IN  IF pos.dtype # "float32" THEN AsType(plane, "float32") ELSE plane]]

\* the channel indices exist in the array of pos
ChannelsInBounds(pos, channel_index) ==
    \A ch \in 1..Len(channel_index) : channel_index[ch] < Len(pos.channel_names)

\* self.cache[i] = torch.from_numpy(data): the copy converts to the dtype of
\* the cache and broadcasts a z extent of 1; another z extent does not fit
CopyIntoCache(c, i, data) ==
    LET zs == c.cache.shape[4]
        fit == [ch \in 1..Len(data) |->
                   [z \in 1..zs |->
                       LET v == IF Len(data[ch]) = 1 THEN data[ch][1] ELSE data[ch][z]
                       IN  IF c.cache.dtype # "float32" THEN AsType(v, c.cache.dtype)
                           ELSE v]]
    IN  [c EXCEPT !.cache.data[i] = fit]

\* the loop of _init_cache_dataset from position i on
RECURSIVE CacheLoop(_, _)
CacheLoop(c, i) ==
    IF i > Len(c.positions) THEN [c EXCEPT !.status = "ready"]
    ELSE LET pos == c.positions[i]
         IN  IF ~ChannelsInBounds(pos, c.total_ch_idx) THEN FailInit(c, "IndexError")
             ELSE LET read == [c EXCEPT !.reads[i] = @ + 1]
                      data == ReadPosition(pos, c.total_ch_idx)
                  IN  IF pos.slices # c.cache.shape[4] /\ pos.slices # 1
                      THEN FailInit(read, "RuntimeError")
                      ELSE CacheLoop(CopyIntoCache(read, i, data), i + 1)

\* CachedDataset._init_cache_dataset (HEAD)
CachedDataset_init_cache_dataset(c) ==
    LET t_idx == 1
        shape == <<Len(c.positions), t_idx, Len(c.total_ch_idx), c.position_shape_zyx>>
        zeros == [i \in 1..shape[1] |-> [ch \in 1..shape[3] |-> [z \in 1..shape[4] |-> 0]]]
    IN  CacheLoop([c EXCEPT !.cache = [type |-> "Tensor", shape |-> shape,
                                       dtype |-> c._cache_dtype, data |-> zeros]], 1)

\* CachedDataset.__init__ on either side of the merge
CachedDataset_new(c) ==
    IF Len(c.positions) = 0 THEN FailInit(c, "IndexError")
    ELSE IF \E i \in 1..Len(AllChannelNames(c.channels)) :
                ~HasChannel(c.positions[1], AllChannelNames(c.channels)[i])
    THEN FailInit(c, "ValueError")
    ELSE LET names == AllChannelNames(c.channels)
             indexed == [c EXCEPT
                            !.total_ch_names = names,
                            !.total_ch_idx = [i \in 1..Len(names) |->
                                                 get_channel_index(c.positions[1], names[i])],
                            !.has_target = "target" \in DOMAIN c.channels]
             mapped == CachedDataset_position_mapping(indexed)
         IN  IF c.variant = "HEAD" THEN CachedDataset_init_cache_dataset(mapped)
             ELSE [mapped EXCEPT !.status = "ready"]

\* one CachedDataset(positions, channels, transform) construction
CachedDataset_init ==
    /\ cd.type = "CachedDataset"
    /\ cd.status = "new"
    /\ cd' = CachedDataset_new(cd)
    /\ UNCHANGED <<dm, hook, nz>>
    /\ UNCHANGED other_vars
    /\ UNCHANGED dataset_vars
    /\ UNCHANGED collate_vars

InCacheDictNever(c, sample_id) == sample_id \in {}

\* sample_id in self.cache_dict (parent)
InCacheDict(c, sample_id) == sample_id \in DOMAIN c.cache_dict

\* CachedDataset._cache_dataset(index, channel_index) (parent); i is the
\* 1-based place of positions[index]
CachedDataset_cache_dataset(c, i, channel_index) ==
    LET key == c.position_keys[i]
        data == ReadPosition(c.positions[i], channel_index)
    IN  [c EXCEPT !.reads[i] = @ + 1,
                  !.cache_dict = [k \in DOMAIN c.cache_dict \cup {key} |->
                                     IF k = key THEN data ELSE c.cache_dict[k]]]

\* hcs_ram._stack_channels(sample_images, channels, key)
CachedDataset_stack_channels(sample_images, chmap, key) ==
    IF sample_images.type # "list"
    THEN StackOne(sample_images, chmap[key])
    ELSE LET each == [j \in 1..Len(sample_images.items) |->
                         StackOne(sample_images.items[j], chmap[key])]
         IN  IF \E j \in 1..Len(each) : each[j].raised # ""
             THEN [raised |-> each[CHOOSE j \in 1..Len(each) : each[j].raised # ""].raised]
             ELSE [raised |-> "",
                   value |-> List([j \in 1..Len(each) |-> each[j].value])]

\* the part of __getitem__ after the images of the position are at hand
CachedSample(c, i, entry) ==
    LET sample_id == c.position_keys[i]
        images == [ch \in 1..Len(entry) |-> Tensor(<<entry[ch]>>)]
        norm_meta == c.norm_meta_dict[i]
        zipped == ZipDict(c.total_ch_names, images)
        keys == DOMAIN zipped
                \cup (IF c.has_target THEN {"weight"} ELSE {})
                \cup (IF norm_meta.type # "NoneType" THEN {"norm_meta"} ELSE {})
        sample_images ==
            Dict([k \in keys |->
                   IF k = "weight" THEN zipped[At(c.channels["target"], 0)]
                   ELSE IF k = "norm_meta" THEN norm_meta
                   ELSE zipped[k]])
        transformed == DelWeight(ApplyTransform(c.transform, sample_images))
        source == CachedDataset_stack_channels(transformed, c.channels, "source")
        target == IF c.has_target
                  THEN CachedDataset_stack_channels(transformed, c.channels, "target")
                  ELSE [raised |-> ""]
    IN  IF source.raised # "" THEN [raised |-> source.raised]
        ELSE IF target.raised # "" THEN [raised |-> target.raised]
        ELSE [raised |-> "",
              sample |->
                [k \in {"index", "source", "norm_meta"}
                       \cup (IF c.has_target THEN {"target"} ELSE {}) |->
                   IF k = "index" THEN sample_id
                   ELSE IF k = "source" THEN source.value
                   ELSE IF k = "norm_meta" THEN norm_meta
                   ELSE target.value]]

\* a cache read that flips the z order of the entry it has just served
ReadCacheFlipping(c, i) ==
    [dataset |-> [c EXCEPT !.cache.data[i] =
                     [ch \in 1..Len(@) |->
                         [z \in 1..Len(@[ch]) |-> @[ch][Len(@[ch]) + 1 - z]]]],
     entry |-> c.cache.data[i]]

\* self.cache[index] (HEAD): a view of the entry; the cache stays as it is
ReadCache(c, i) == [dataset |-> c, entry |-> c.cache.data[i]]

\* CachedDataset.__getitem__(index): the dataset after the call and the
\* sample or the exception
CachedDataset_getitem(c, index) ==
    LET n == Len(c.positions)
        i == (IF index < 0 THEN index + n ELSE index) + 1
    IN  IF index < 0 - n \/ index >= n
        THEN [dataset |-> c, outcome |-> [raised |-> "IndexError"]]
        ELSE IF c.variant = "HEAD"
        THEN LET view == ReadCache(c, i)
             IN  [dataset |-> view.dataset,
                  outcome |-> CachedSample(view.dataset, i, view.entry)]
        ELSE IF InCacheDict(c, c.position_keys[i])
        THEN [dataset |-> c,
              outcome |-> CachedSample(c, i, c.cache_dict[c.position_keys[i]])]
        ELSE IF ~ChannelsInBounds(c.positions[i], c.total_ch_idx)
        THEN [dataset |-> c, outcome |-> [raised |-> "IndexError"]]
        ELSE LET cached == CachedDataset_cache_dataset(c, i, c.total_ch_idx)
             IN  [dataset |-> cached,
                  outcome |-> CachedSample(cached, i,
                                           cached.cache_dict[cached.position_keys[i]])]

\* the cached data of every position
CacheContents(c) == IF c.variant = "HEAD" THEN c.cache.data ELSE c.cache_dict

\* one __getitem__(index) call; the call before it and the cache contents
\* before it are kept for comparison
CachedGetItem(index) ==
    /\ cd.type = "CachedDataset"
    /\ cd.status = "ready"
    /\ cd.gets < MaxGets
    /\ LET got == CachedDataset_getitem(cd, index)
       IN  cd' = [got.dataset EXCEPT
                     !.gets = @ + 1,
                     !.requested = IF index < 0 - Len(cd.positions)
                                      \/ index >= Len(cd.positions)
                                   THEN @
                                   ELSE @ \cup {IF index < 0
                                                THEN index + Len(cd.positions)
                                                ELSE index},
                     !.prev = cd.last,
                     !.cache_before = CacheContents(cd),
                     !.last = [type |-> "outcome", index |-> index,
                               outcome |-> got.outcome]]
    /\ UNCHANGED <<dm, hook, nz>>
    /\ UNCHANGED other_vars
    /\ UNCHANGED dataset_vars
    /\ UNCHANGED collate_vars

Dtypes == {"float32", "uint16", "float16"}

\* lists of 1..n positions of one frame with a dtype
CachedPositionLists(n, Zs, Ls, Ds, Ms) ==
    UNION {{[i \in 1..m |-> [name |-> i, frames |-> 1, slices |-> f[i].slices,
                             channel_names |-> f[i].channel_names,
                             dtype |-> f[i].dtype, norm_meta |-> meta]] :
             f \in [1..m -> [slices : Zs, channel_names : Ls, dtype : Ds]],
             meta \in Ms} :
           m \in 1..n}

\* the arguments of a CachedDataset not constructed yet
NewCachedDataset(variant, ps, chmap, tr) ==
    [type |-> "CachedDataset", variant |-> variant, positions |-> ps,
     channels |-> chmap, transform |-> tr, status |-> "new", raised |-> "",
     total_ch_names |-> <<>>, total_ch_idx |-> <<>>, has_target |-> FALSE,
     position_keys |-> <<>>, norm_meta_dict |-> <<>>,
     position_shape_zyx |-> 0, _cache_dtype |-> "",
     cache |-> None, cache_dict |-> <<>>,
     reads |-> [i \in 1..Len(ps) |-> 0],
     gets |-> 0, requested |-> {}, prev |-> None, cache_before |-> None,
     last |-> None]

Variants == {"HEAD", "parent"}

\* stores whose positions differ in z extent and dtype
CachedShapes ==
    {NewCachedDataset(v, ps, [source |-> <<"Phase">>, target |-> <<"Nuclei">>],
                      [kind |-> "None"]) :
        v \in Variants,
        ps \in CachedPositionLists(MaxPos, 1..MaxZ, {<<"Phase", "Nuclei">>}, Dtypes, {None})}

\* stores whose positions differ in channel order, read with every channel
\* map and transform
CachedContent ==
    {NewCachedDataset(v, ps, chmap, tr) :
        v \in Variants,
        ps \in CachedPositionLists(MaxPos, {MaxZ}, Layouts, {"float32"}, {None, NormMeta}),
        chmap \in ChannelMaps, tr \in Transforms}

\* one position of every dtype of the dtype table
CachedDtypes ==
    {NewCachedDataset(v, ps, [source |-> <<"Phase">>], [kind |-> "None"]) :
        v \in Variants,
        ps \in CachedPositionLists(1, {1}, {<<"Phase">>},
                                   DOMAIN numpy_to_torch_dtype, {None})}

InitCache ==
    /\ cd \in CachedShapes \cup CachedContent \cup CachedDtypes
    /\ dm = None
    /\ hook = None
    /\ nz = None
    /\ OthersIdle
    /\ DatasetIdle

NextCache ==
    \/ CachedDataset_init
    \/ \E index \in (0 - 1)..MaxPos : CachedGetItem(index)

SpecCache == InitCache /\ [][NextCache]_vars


----------------------------------------------------------------------------
(* Properties of CachedDataset.                                            *)

\* the last two __getitem__ calls returned a sample of the same position
SamePositionTwice ==
    /\ cd.prev # None
    /\ cd.last.outcome.raised = ""
    /\ cd.prev.outcome.raised = ""
    /\ cd.last.outcome.sample["index"] = cd.prev.outcome.sample["index"]

\* C15: over any sequence of __getitem__ calls on one dataset the array of
\* each position is read from the store at most once; every access after the
\* first is served from the cache.
C15_ReadAtMostOnce ==
    \A i \in 1..Len(cd.positions) : cd.reads[i] <= 1

\* the dictionary side served the second access to a position from the cache
C15_Witness ==
    /\ cd.variant = "parent"
    /\ SamePositionTwice
    /\ Len(cd.positions) = MaxPos
    /\ \E i \in 1..Len(cd.positions) :
          /\ cd.position_keys[i] = cd.last.outcome.sample["index"]
          /\ cd.reads[i] = 1


\* the positions (0-based) whose array has been read from the store
Decoded == {i - 1 : i \in {j \in 1..Len(cd.positions) : cd.reads[j] > 0}}

\* C16: cache entries are created lazily: right after construction no
\* position has been decoded, and after any sequence of gets the decoded
\* positions are exactly the positions that were requested.
C16_LazyCache ==
    cd.status = "ready" => Decoded = cd.requested

C18_CacheShapeFromFirst ==
    (cd.variant = "HEAD" /\ cd.cache # None) =>
        LET first == cd.positions[1]
        IN  /\ cd.cache.shape = <<Len(cd.positions), 1,
                                  Len(AllChannelNames(cd.channels)), first.slices>>
            /\ cd.cache.dtype = IF first.dtype \in DOMAIN numpy_to_torch_dtype
                                THEN numpy_to_torch_dtype[first.dtype]
                                ELSE "float32"


----------------------------------------------------------------------------
(* viscy.light.data.NormalizeSampled                                       *)
(*                                                                         *)
(* A tensor holds one intensity, an exact fraction <<numerator,            *)
(* denominator>> in lowest terms (the rounding of float arithmetic is not  *)
(* represented).  The channel map of viscy.light.data maps "source" and    *)
(* "target" to one channel name each; norm_meta maps a channel name to its *)
(* dataset statistics [median, iqr].  The interquartile ranges of the      *)
(* model are positive.                                                     *)

\* largest intensity and largest median of the statistics
MaxIntensity == 2
\* largest interquartile range of the statistics
MaxIqr == 2

RECURSIVE GCD(_, _)
GCD(a, b) == IF b = 0 THEN a ELSE GCD(b, a % b)

Abs(a) == IF a < 0 THEN 0 - a ELSE a

\* the fraction n/d (d > 0) in lowest terms
Frac(n, d) == LET g == GCD(Abs(n), d) IN <<n \div g, d \div g>>

\* x - m, x / q, x * q and x + m for a fraction x and integers m, q (q > 0)
FracSub(x, m) == Frac(x[1] - m * x[2], x[2])

FracDiv(x, q) == Frac(x[1], x[2] * q)

FracMul(x, q) == Frac(x[1] * q, x[2])

FracAdd(x, m) == Frac(x[1] + m * x[2], x[2])

\* NormalizeSampled.__init__: the keys are rejected only when they are a
\* proper superset of the keys of the channel map
NormalizeSampled_new(n) ==
    IF DOMAIN n.channels \subseteq Range(n.keys) /\ DOMAIN n.channels # Range(n.keys)
    THEN [n EXCEPT !.status = "failed", !.raised = "KeyError"]
    ELSE [n EXCEPT !.status = "ready"]

\* NormalizeSampled._stat(key) can be looked up
HasStat(n, key) == key \in DOMAIN n.channels /\ n.channels[key] \in DOMAIN n.norm_meta

\* NormalizeSampled._stat(key)
_stat(n, key) == n.norm_meta[n.channels[key]]

\* the loop "for key in self.keys" of __call__ over the keys from k on
RECURSIVE NormalizeLoop(_, _, _)
NormalizeLoop(n, d, k) ==
    IF k > Len(n.keys) THEN [raised |-> "", d |-> d]
    ELSE LET key == n.keys[k]
         IN  IF key \notin DOMAIN d \/ ~HasStat(n, key) THEN [raised |-> "KeyError"]
             ELSE NormalizeLoop(n,
                                [d EXCEPT ![key] =
                                    Tensor(FracDiv(FracSub(@.data, _stat(n, key).median),
                                                   _stat(n, key).iqr))],
                                k + 1)

\* NormalizeSampled.__call__(data)
NormalizeSampled_call(n, data) ==
    LET done == NormalizeLoop(n, data.map, 1)
    IN  IF done.raised # "" THEN [raised |-> done.raised]
        ELSE [raised |-> "", returned |-> Dict(done.d)]

\* the loop "for key in self.keys" of inverse over the keys from k on
RECURSIVE InverseLoop(_, _, _)
InverseLoop(n, d, k) ==
    IF k > Len(n.keys) THEN [raised |-> "", d |-> d]
    ELSE LET key == n.keys[k]
         IN  IF key \notin DOMAIN d \/ ~HasStat(n, key) THEN [raised |-> "KeyError"]
             ELSE InverseLoop(n,
                              [d EXCEPT ![key] =
                                  Tensor(FracAdd(FracMul(@.data, _stat(n, key).iqr),
                                                 _stat(n, key).median))],
                              k + 1)

\* NormalizeSampled.inverse(data): the loop fills a local dict and the
\* method ends without a return statement
NormalizeSampled_inverse(n, data) ==
    LET done == InverseLoop(n, data.map, 1)
    IN  IF done.raised # "" THEN [raised |-> done.raised]
        ELSE [raised |-> "", returned |-> None]

\* NormalizeSampled(keys, norm_meta, channels)
NormalizeInit ==
    /\ nz.type = "NormalizeSampled"
    /\ nz.status = "new"
    /\ nz' = NormalizeSampled_new(nz)
    /\ UNCHANGED <<dm, hook, cd>>
    /\ UNCHANGED other_vars
    /\ UNCHANGED dataset_vars
    /\ UNCHANGED collate_vars

\* transform(sample)
NormalizeCall ==
    /\ nz.type = "NormalizeSampled"
    /\ nz.status = "ready"
    /\ nz.called = None
    /\ nz' = [nz EXCEPT !.called = [type |-> "outcome",
                                    outcome |-> NormalizeSampled_call(nz, nz.sample)]]
    /\ UNCHANGED <<dm, hook, cd>>
    /\ UNCHANGED other_vars
    /\ UNCHANGED dataset_vars
    /\ UNCHANGED collate_vars

\* transform.inverse(transform(sample))
NormalizeInverse ==
    /\ nz.type = "NormalizeSampled"
    /\ nz.called # None
    /\ nz.called.outcome.raised = ""
    /\ nz.inverted = None
    /\ nz' = [nz EXCEPT !.inverted =
                 [type |-> "outcome",
                  outcome |-> NormalizeSampled_inverse(nz, nz.called.outcome.returned)]]
    /\ UNCHANGED <<dm, hook, cd>>
    /\ UNCHANGED other_vars
    /\ UNCHANGED dataset_vars
    /\ UNCHANGED collate_vars

Statistics == [median : 0..MaxIntensity, iqr : 1..MaxIqr]

NormKeys == {<<"target">>, <<"target", "source">>, <<"source">>, <<"source", "target", "weight">>}

LightChannelMaps == {[source |-> "Phase", target |-> "Nuclei"], [source |-> "Phase"]}

\* a sample of viscy.light.data: index, source and target
LightSamples ==
    {Dict([k \in {"index", "source", "target"} |->
             IF k = "index" THEN Tuple(<<1, 0, 0>>)
             ELSE IF k = "source" THEN Tensor(Frac(x, 1))
             ELSE Tensor(Frac(y, 1))]) :
        x \in 0..MaxIntensity, y \in 0..MaxIntensity}

InitNormalize ==
    /\ nz \in {[type |-> "NormalizeSampled", keys |-> keys, channels |-> chmap,
                norm_meta |-> [c \in ChannelNames |->
                                  IF c = "Phase" THEN phase ELSE nuclei],
                sample |-> sample, status |-> "new", raised |-> "",
                called |-> None, inverted |-> None] :
                  keys \in NormKeys, chmap \in LightChannelMaps,
                  phase \in Statistics, nuclei \in Statistics,
                  sample \in LightSamples}
    /\ dm = None
    /\ hook = None
    /\ cd = None
    /\ OthersIdle
    /\ DatasetIdle

NextNormalize ==
    \/ NormalizeInit
    \/ NormalizeCall
    \/ NormalizeInverse

SpecNormalize == InitNormalize /\ [][NextNormalize]_vars

----------------------------------------------------------------------------
(* Properties of NormalizeSampled.                                         *)

\* C19: inverse(transform(sample)) returns a sample with the original values
\* in the normalized keys and every other key unchanged (5 with median 5 and
\* IQR 1 normalizes to 0 and inverts to 5), for a non-zero IQR.
C19_RoundTrip ==
    (nz.inverted # None /\ nz.inverted.outcome.raised = "") =>
        nz.inverted.outcome.returned = nz.sample

----------------------------------------------------------------------------
(* The data loaders of viscy.data.hcs.HCSDataModule and                    *)
(* viscy.data.hcs_ram.CachedDataModule.                                    *)

\* len(dataset): the sliding windows of all positions of a
\* SlidingWindowDataset, the positions of a CachedDataset
DatasetLength(m, d) ==
    IF m.kind = "Cached" THEN Len(d.positions) ELSE Len(d.positions) * m.frames

\* torch's DataLoader(dataset, batch_size, shuffle, drop_last, collate_fn):
\* a batch size that is not positive is refused
DataLoader(which, m, d, batch_size, shuffle, drop_last, collate_fn) ==
    IF batch_size <= 0 THEN [raised |-> "ValueError", which |-> which]
    ELSE [raised |-> "", which |-> which, dataset |-> d.id,
          length |-> DatasetLength(m, d), batch_size |-> batch_size,
          shuffle |-> shuffle, drop_last |-> drop_last,
          collate_fn |-> collate_fn]

\* train_dataloader with batch_size=self.batch_size
TrainDataloaderUndivided(m) ==
    IF m.train_dataset = None \/ m.train_patches_per_stack = None
    THEN [raised |-> "AttributeError", which |-> "train"]
    ELSE DataLoader("train", m, m.train_dataset, m.batch_size,
                    TRUE, TRUE, "_collate_samples")

\* HCSDataModule.train_dataloader and CachedDataModule.train_dataloader:
\* self.train_dataset and self.train_patches_per_stack are read; an attribute
\* that was never assigned raises AttributeError
TrainDataloader(m) ==
    IF m.train_dataset = None \/ m.train_patches_per_stack = None
    THEN [raised |-> "AttributeError", which |-> "train"]
    ELSE DataLoader("train", m, m.train_dataset,
                    m.batch_size \div m.train_patches_per_stack.value,
                    TRUE, TRUE, "_collate_samples")

\* HCSDataModule.val_dataloader and CachedDataModule.val_dataloader
ValDataloader(m) ==
    IF m.val_dataset = None THEN [raised |-> "AttributeError", which |-> "val"]
    ELSE DataLoader("val", m, m.val_dataset, m.batch_size,
                    FALSE, FALSE, "default_collate")

\* HCSDataModule.predict_dataloader
PredictDataloader(m) ==
    IF m.predict_dataset = None
    THEN [raised |-> "AttributeError", which |-> "predict"]
    ELSE DataLoader("predict", m, m.predict_dataset, m.batch_size,
                    FALSE, FALSE, "default_collate")

\* one train_dataloader() call
CallTrainDataloader ==
    /\ dm.type = "DataModule"
    /\ dm' = [dm EXCEPT !.loader = TrainDataloader(dm)]
    /\ UNCHANGED <<hook, cd, nz>>
    /\ UNCHANGED other_vars
    /\ UNCHANGED dataset_vars
    /\ UNCHANGED collate_vars

\* one val_dataloader() call
CallValDataloader ==
    /\ dm.type = "DataModule"
    /\ dm' = [dm EXCEPT !.loader = ValDataloader(dm)]
    /\ UNCHANGED <<hook, cd, nz>>
    /\ UNCHANGED other_vars
    /\ UNCHANGED dataset_vars
    /\ UNCHANGED collate_vars

\* one predict_dataloader() call; CachedDataModule defines none
CallPredictDataloader ==
    /\ dm.type = "DataModule"
    /\ dm.kind = "HCS"
    /\ dm' = [dm EXCEPT !.loader = PredictDataloader(dm)]
    /\ UNCHANGED <<hook, cd, nz>>
    /\ UNCHANGED other_vars
    /\ UNCHANGED dataset_vars
    /\ UNCHANGED collate_vars

\* the sizes of the index groups a loader yields over one epoch: full groups
\* of batch_size, and the remainder unless drop_last
BatchSizes(length, batch_size, drop_last) ==
    [i \in 1..(length \div batch_size) |-> batch_size]
    \o (IF length % batch_size # 0 /\ ~drop_last
        THEN <<length % batch_size>> ELSE <<>>)

\* the index orders of the loader's sampler: RandomSampler draws any
\* permutation, SequentialSampler counts up
IndexOrders(loader) ==
    IF loader.shuffle THEN randperm(loader.length)
    ELSE {[i \in 1..loader.length |-> i - 1]}

\* the g-th index group of an epoch over the order
IndexGroup(loader, order, g) ==
    LET sizes == BatchSizes(loader.length, loader.batch_size, loader.drop_last)
    IN  SubSeq(order, (g - 1) * loader.batch_size + 1,
               (g - 1) * loader.batch_size + sizes[g])

\* the crops the training transform returns for one stack: a list of
\* num_samples mappings when the augmentations hold a multi-sample
\* transform, and one mapping (0) otherwise.  The augmentation lists of the
\* loader runs hold at most one multi-sample transform.
CropsOf(augs) ==
    IF \E i \in 1..Len(augs) : augs[i].kind = "MultiSample"
    THEN augs[CHOOSE i \in 1..Len(augs) : augs[i].kind = "MultiSample"].num_samples
    ELSE 0

\* the sample train_dataset[index]: every entry is a tensor, or a list of
\* tensors with one element per crop
TrainSample(m, index) ==
    [key \in {"source", "target"} |-> SampleValue(index, key, CropsOf(m.augmentations))]

\* the training batch of an index group: collate_fn(samples)
TrainBatch(m, group) ==
    _collate_samples([i \in 1..Len(group) |-> TrainSample(m, group[i])])

MaxFrames == 3

LoaderAugmentationLists ==
    {<<>>, <<Aug("other", 0)>>, <<Aug("RandAffined", 0), Aug("RandAffined", 0)>>}
    \cup {<<Aug("MultiSample", k)>> : k \in 1..MaxCrops}

LoaderModules ==
    {[DataModule(kind, 2, [num |-> 1, den |-> 2], b, augs, FALSE)
         EXCEPT !.frames = f] :
        kind \in {"HCS", "Cached"}, b \in 1..MaxBatchSize,
        augs \in LoaderAugmentationLists, f \in 1..MaxFrames}

InitLoader ==
    /\ dm \in LoaderModules
    /\ hook = None
    /\ cd = None
    /\ nz = None
    /\ OthersIdle
    /\ DatasetIdle

NextLoader ==
    \/ \E stage \in Stages : Setup(stage)
    \/ CallTrainDataloader
    \/ CallValDataloader
    \/ CallPredictDataloader

SpecLoader == InitLoader /\ [][NextLoader]_vars

----------------------------------------------------------------------------
(* Properties of the data loaders.                                         *)

LoaderBuilt(which) ==
    /\ dm.loader # None
    /\ dm.loader.which = which
    /\ dm.loader.raised = ""

\* the per-stack crop count k
CropCount(m) == IF CropsOf(m.augmentations) = 0 THEN 1 ELSE CropsOf(m.augmentations)

\* the number of crops in a collated batch
CropsIn(collation) == Len(collation.value["source"].data)

\* C21: the training loader of hcs.HCSDataModule groups B // k >= 1 stacks
\* per step, drops the trailing incomplete group, and every batch it emits
\* holds exactly B crops after collation; the validation and the predict
\* loader do not shuffle and drop no sample.
C21_TrainBatchCrops ==
    /\ (LoaderBuilt("train") /\ dm.kind = "HCS"
            /\ dm.batch_size % CropCount(dm) = 0) =>
          LET l == dm.loader
              sizes == BatchSizes(l.length, l.batch_size, l.drop_last)
          IN  /\ l.batch_size = dm.batch_size \div CropCount(dm)
              /\ l.batch_size >= 1
              /\ l.drop_last
              /\ l.collate_fn = "_collate_samples"
              /\ Len(sizes) = l.length \div l.batch_size
              /\ \A order \in IndexOrders(l) : \A g \in 1..Len(sizes) :
                    LET group == IndexGroup(l, order, g)
                    IN  /\ Len(group) = dm.batch_size \div CropCount(dm)
                        /\ TrainBatch(dm, group).raised = ""
                        /\ CropsIn(TrainBatch(dm, group)) = dm.batch_size
    /\ ((LoaderBuilt("val") \/ LoaderBuilt("predict")) /\ dm.kind = "HCS") =>
          LET l == dm.loader
              sizes == BatchSizes(l.length, l.batch_size, l.drop_last)
          IN  /\ ~l.shuffle
              /\ ~l.drop_last
              /\ l.batch_size = dm.batch_size
              /\ \A order \in IndexOrders(l) :
                    /\ order = [i \in 1..l.length |-> i - 1]
                    /\ \A i \in 1..l.length : \E g \in 1..Len(sizes) :
                          \E j \in 1..Len(IndexGroup(l, order, g)) :
                              IndexGroup(l, order, g)[j] = i - 1

\* a training loader over three stacks that emits two-crop batches of one
\* stack each
C21_Witness ==
    /\ LoaderBuilt("train")
    /\ dm.kind = "HCS"
    /\ CropsOf(dm.augmentations) = 2
    /\ dm.batch_size = 2
    /\ dm.loader.length = 3
    /\ Len(BatchSizes(dm.loader.length, dm.loader.batch_size, dm.loader.drop_last)) = 3

\* C27: after a successful setup('fit') of HCSDataModule or CachedDataModule
\* train_patches_per_stack is defined for every augmentation list (1 without
\* a multi-sample augmentation, its crop count otherwise), and
\* train_dataloader() builds its loader without error.
C27_PatchesPerStackDefined ==
    (FitSucceeded /\ dm.kind \in {"HCS", "Cached"}) =>
        /\ dm.train_patches_per_stack # None
        /\ dm.train_patches_per_stack = PyInt(CropCount(dm))
        /\ TrainDataloader(dm).raised = ""

----------------------------------------------------------------------------
(* The 'weight' alias of SlidingWindowDataset.__getitem__.                 *)

\* the mappings sample_images holds when __getitem__ returns
MappingsAtReturn(images) ==
    IF images.type = "list" THEN {images.items[j] : j \in 1..Len(images.items)}
    ELSE {images}

\* C22: the returned sample never has a 'weight' key, and when __getitem__
\* returns no mapping of sample_images (the single mapping, or each per-crop
\* mapping of a list of crops) still contains 'weight'.
C22_WeightAliasRemoved ==
    (Ready /\ Returned) =>
        /\ "weight" \notin DOMAIN result.outcome.sample
        /\ \A im \in MappingsAtReturn(result.outcome.images) :
               "weight" \notin DOMAIN im.map

----------------------------------------------------------------------------
(* The numeric value of a cached element.                                  *)
(*                                                                         *)
(* Pixel values are integers (the fractional values of the float dtypes    *)
(* are not represented) and stay below 2^31.                               *)

\* the bit widths of the 8 and 16 bit integer dtypes
NarrowBits ==
    [d \in {"uint8", "int8", "uint16", "int16"} |->
        IF d \in {"uint8", "int8"} THEN 8 ELSE 16]

IsUnsigned(d) == d \in {"uint8", "uint16"}

\* the least and the greatest value of a narrow integer dtype
DtypeMin(d) == IF IsUnsigned(d) THEN 0 ELSE 0 - 2^(NarrowBits[d] - 1)

DtypeMax(d) == IF IsUnsigned(d) THEN 2^NarrowBits[d] - 1 ELSE 2^(NarrowBits[d] - 1) - 1

\* the nearest float32 to the integer v, ties to even: 24 bits of precision
RoundFloat32(v) ==
    LET a == Abs(v)
    IN  IF a <= 2^24 THEN v
        ELSE LET k == CHOOSE j \in 1..7 : 2^(23 + j) <= a /\ a < 2^(24 + j)
                 ulp == 2^k
                 q == a \div ulp
                 r == a % ulp
                 up == 2 * r > ulp \/ (2 * r = ulp /\ q % 2 = 1)
                 rounded == (IF up THEN q + 1 ELSE q) * ulp
             IN  IF v < 0 THEN 0 - rounded ELSE rounded

\* the values a conversion of v to dtype can give.  A float value outside
\* the range of an integer dtype is converted with undefined behaviour: the
\* build wraps it modulo 2^bits or saturates it.
CastOutcomes(v, dtype) ==
    IF dtype = "float32" THEN {RoundFloat32(v)}
    ELSE IF dtype \notin DOMAIN NarrowBits THEN {v}
    ELSE IF DtypeMin(dtype) <= v /\ v <= DtypeMax(dtype) THEN {v}
    ELSE {((v - DtypeMin(dtype)) % 2^NarrowBits[dtype]) + DtypeMin(dtype),
          IF v < DtypeMin(dtype) THEN DtypeMin(dtype) ELSE DtypeMax(dtype)}

\* the values after the conversions casts[from..] of each of the values
RECURSIVE ApplyCasts(_, _, _)
ApplyCasts(values, casts, from) ==
    IF from > Len(casts) THEN values
    ELSE ApplyCasts(UNION {CastOutcomes(v, casts[from]) : v \in values}, casts, from + 1)

\* the values the cached element can hold when the stored pixel is px
StoredValues(element, px) == ApplyCasts({px}, element.casts, 1)

\* representable values of a dtype of the table, at the ends and in the
\* middle of its range; 2^24 + 1 is the least positive integer that float32
\* does not hold
PixelValues(d) ==
    IF d \in DOMAIN NarrowBits
    THEN {DtypeMin(d), 1, 2^(NarrowBits[d] - 1) - 1, 2^(NarrowBits[d] - 1), DtypeMax(d)}
    ELSE IF d = "float32" THEN {0 - 1, 0, 1, 2^24, 2^24 + 2}
    ELSE {0 - (2^24 + 1), 0 - 1, 0, 1, 2^24 + 1}

\* the cache entry the last __getitem__ call served
ServedEntry ==
    LET n == Len(cd.positions)
        i == (IF cd.last.index < 0 THEN cd.last.index + n ELSE cd.last.index) + 1
    IN  [position |-> cd.positions[i],
         entry |-> IF cd.variant = "HEAD" THEN cd.cache.data[i]
                   ELSE cd.cache_dict[cd.position_keys[i]]]

\* C23: for every source dtype of the dtype table and every representable
\* pixel value, the channel tensors CachedDataset returns hold the same
\* numeric value as the pixel stored at time 0: no value wraps or is
\* truncated.
C23_PixelValuesPreserved ==
    (cd.last # None /\ cd.last.outcome.raised = ""
        /\ ServedEntry.position.dtype \in DOMAIN numpy_to_torch_dtype) =>
        \A ch \in 1..Len(ServedEntry.entry) : \A z \in 1..Len(ServedEntry.entry[ch]) :
            \A px \in PixelValues(ServedEntry.position.dtype) :
                StoredValues(ServedEntry.entry[ch][z], px) = {px}

----------------------------------------------------------------------------
(* DataLoader worker processes over a CachedDataset.                       *)
(*                                                                         *)
(* A loader with num_workers > 0 starts worker processes; each holds its   *)
(* own copy of the dataset object as it was in the main process at the     *)
(* start (the fork).  workers.copies[w] is the dataset of worker w,        *)
(* workers.at_fork the dataset of the main process at the fork, and        *)
(* workers.accessed[w] the places of the positions worker w was asked for. *)

MaxWorkers == 2

\* a worker's write that lands in the dataset of every worker
StoreInWorkerShared(ws, w, dataset) ==
    [ws EXCEPT !.copies = [v \in DOMAIN @ |->
                              IF v = w THEN dataset
                              ELSE [@[v] EXCEPT !.cache_dict = dataset.cache_dict,
                                                !.cache = dataset.cache]]]

\* the dataset of worker w after a call: the memory of the process of w
\* changes, that of no other process
StoreInWorker(ws, w, dataset) == [ws EXCEPT !.copies[w] = dataset]

\* iter(DataLoader(dataset, num_workers=n)): n worker processes start, each
\* with a copy of the dataset
Fork(n) ==
    /\ cd.type = "CachedDataset"
    /\ cd.status = "ready"
    /\ workers = None
    /\ workers' = [type |-> "Workers", at_fork |-> cd,
                   copies |-> [w \in 1..n |-> cd],
                   accessed |-> [w \in 1..n |-> {}]]
    /\ UNCHANGED <<dm, hook, cd, nz, cdm, cds, tiling>>
    /\ UNCHANGED dataset_vars
    /\ UNCHANGED collate_vars

\* dataset[index] in worker w, for an index the sampler hands out
WorkerGetItem(w, index) ==
    /\ workers.type = "Workers"
    /\ w \in DOMAIN workers.copies
    /\ index < Len(workers.copies[w].positions)
    /\ \A i \in 1..Len(workers.copies[w].positions) :
           workers.copies[w].reads[i] <= MaxGets
    /\ LET got == CachedDataset_getitem(workers.copies[w], index)
           stored == StoreInWorker(workers, w, got.dataset)
       IN  workers' = [stored EXCEPT !.accessed[w] = @ \cup {index + 1}]
    /\ UNCHANGED <<dm, hook, cd, nz, cdm, cds, tiling>>
    /\ UNCHANGED dataset_vars
    /\ UNCHANGED collate_vars

\* datasets of one channel over stores of up to MaxPos positions
WorkerDatasets ==
    {NewCachedDataset(v, ps, [source |-> <<"Phase">>], [kind |-> "None"]) :
        v \in Variants,
        ps \in CachedPositionLists(MaxPos, {1}, {<<"Phase">>}, {"float32"}, {None})}

InitWorkers ==
    /\ cd \in WorkerDatasets
    /\ dm = None
    /\ hook = None
    /\ nz = None
    /\ OthersIdle
    /\ DatasetIdle

NextWorkers ==
    \/ CachedDataset_init
    \/ \E index \in 0..(MaxPos - 1) : workers = None /\ CachedGetItem(index)
    \/ \E n \in 1..MaxWorkers : Fork(n)
    \/ \E w \in 1..MaxWorkers : \E index \in 0..(MaxPos - 1) : WorkerGetItem(w, index)

SpecWorkers == InitWorkers /\ [][NextWorkers]_vars

----------------------------------------------------------------------------
(* Properties of the worker processes.                                     *)

\* the places of the positions the cache of dataset c holds
CachedPlaces(c) ==
    IF c.variant = "HEAD" THEN 1..Len(c.positions)
    ELSE {i \in 1..Len(c.positions) : c.position_keys[i] \in DOMAIN c.cache_dict}

\* the number of times worker w has decoded position i since the fork
DecodedByWorker(w, i) == workers.copies[w].reads[i] - workers.at_fork.reads[i]

\* C24: a position decoded into the cache by a worker after the fork is in
\* the cache of no other worker: every position a worker's cache holds was
\* cached before the fork or decoded by that worker itself, on its first
\* access and once; the caches agree on the positions cached before the fork.
C24_WorkerCachesSeparate ==
    workers # None =>
        \A w \in DOMAIN workers.copies :
            /\ \A i \in CachedPlaces(workers.copies[w]) :
                   \/ i \in CachedPlaces(workers.at_fork)
                   \/ DecodedByWorker(w, i) = 1
            /\ \A i \in 1..Len(workers.copies[w].positions) :
                   /\ DecodedByWorker(w, i) <= 1
                   /\ DecodedByWorker(w, i) = 1 =>
                          i \in workers.accessed[w] \ CachedPlaces(workers.at_fork)
                   /\ i \in workers.accessed[w] => i \in CachedPlaces(workers.copies[w])
            /\ \A i \in CachedPlaces(workers.at_fork) :
                   /\ i \in CachedPlaces(workers.copies[w])
                   /\ CacheContents(workers.copies[w])[workers.copies[w].position_keys[i]]
                          = CacheContents(workers.at_fork)[workers.at_fork.position_keys[i]]

\* two workers of a dictionary-cached dataset: both decoded the first
\* position after the fork, and the second position is in the cache of
\* worker 1 only
C24_Witness ==
    /\ workers # None
    /\ workers.at_fork.variant = "parent"
    /\ Len(workers.copies) = 2
    /\ DecodedByWorker(1, 1) = 1
    /\ DecodedByWorker(2, 1) = 1
    /\ 2 \in CachedPlaces(workers.copies[1])
    /\ 2 \notin CachedPlaces(workers.copies[2])

----------------------------------------------------------------------------
(* viscy.data.hcs.ContrastiveDataModule                                    *)
(*                                                                         *)
(* cdm.positions is len(ContrastiveDataset(base_path)); a ratio is the     *)
(* fraction num/den; predict_base_path is None or "set".  The stage "None" *)
(* is the default argument stage=None.                                     *)

MaxNumWorkers == 1

\* torch.utils.data.random_split(dataset, lengths): slices of a permutation
\* of the indices, lengths[k] of them after the first lengths[1..k-1]
random_split(indices, lengths) ==
    LET offset(k) == IF k = 1 THEN 0
                     ELSE IF k = 2 THEN lengths[1]
                     ELSE lengths[1] + lengths[2]
    IN  [k \in 1..3 |->
            [type |-> "Subset",
             indices |-> SubSeq(indices, offset(k) + 1,
                                Min(offset(k) + lengths[k], Len(indices)))]]

\* ContrastiveDataModule.setup(stage)
ContrastiveDataModule_setup(m, stage, indices) ==
    LET n == m.positions
        train_size == (n * m.train_split_ratio.num) \div m.train_split_ratio.den
        val_size == (n * m.val_split_ratio.num) \div m.val_split_ratio.den
        test_size == n - train_size - val_size
        split == random_split(indices, <<train_size, val_size, test_size>>)
        fitted == [m EXCEPT !.train_dataset = split[1],
                            !.val_dataset = split[2],
                            !.test_dataset = split[3]]
    IN  IF stage = "predict" /\ m.predict_base_path # None
        THEN [fitted EXCEPT !.predict_dataset =
                               [type |-> "ContrastiveDataset",
                                base_path |-> m.predict_base_path,
                                length |-> m.predict_positions]]
        ELSE fitted

\* DataLoader(dataset, batch_size, shuffle, num_workers, prefetch_factor=2,
\* persistent_workers=True): torch refuses persistent workers and a prefetch
\* factor when num_workers is 0
ContrastiveLoader(dataset, batch_size, shuffle, num_workers) ==
    IF batch_size <= 0 \/ num_workers = 0 THEN [raised |-> "ValueError"]
    ELSE [raised |-> "", dataset |-> dataset, batch_size |-> batch_size,
          shuffle |-> shuffle, num_workers |-> num_workers]

\* ContrastiveDataModule.predict_dataloader
ContrastiveDataModule_predict_dataloader(m) ==
    IF m.predict_dataset = None THEN [raised |-> "ValueError"]
    ELSE ContrastiveLoader(m.predict_dataset, m.batch_size, FALSE, m.num_workers)

\* one setup(stage) call
ContrastiveSetup(stage) ==
    /\ cdm.type = "ContrastiveDataModule"
    /\ cdm.calls < MaxSetups
    /\ \E indices \in randperm(cdm.positions) :
          cdm' = [ContrastiveDataModule_setup(cdm, stage, indices) EXCEPT
                     !.calls = @ + 1, !.last_stage = stage]
    /\ UNCHANGED <<dm, hook, cd, nz, workers, cds, tiling>>
    /\ UNCHANGED dataset_vars
    /\ UNCHANGED collate_vars

\* one predict_dataloader() call
ContrastivePredictDataloader ==
    /\ cdm.type = "ContrastiveDataModule"
    /\ cdm.loads < MaxSetups
    /\ cdm' = [cdm EXCEPT !.loads = @ + 1,
                          !.loader = ContrastiveDataModule_predict_dataloader(cdm)]
    /\ UNCHANGED <<dm, hook, cd, nz, workers, cds, tiling>>
    /\ UNCHANGED dataset_vars
    /\ UNCHANGED collate_vars

\* ContrastiveDataModule.__init__ with the default split ratios 0.64 and 0.16
ContrastiveDataModule(n, predict_base_path, batch_size, num_workers) ==
    [type |-> "ContrastiveDataModule", positions |-> n,
     predict_positions |-> 1, predict_base_path |-> predict_base_path,
     train_split_ratio |-> [num |-> 64, den |-> 100],
     val_split_ratio |-> [num |-> 16, den |-> 100],
     batch_size |-> batch_size, num_workers |-> num_workers,
     train_dataset |-> None, val_dataset |-> None, test_dataset |-> None,
     predict_dataset |-> None,
     calls |-> 0, last_stage |-> "", loads |-> 0, loader |-> None]

ContrastiveStages == Stages \cup {"None"}

InitContrastive ==
    /\ cdm \in {ContrastiveDataModule(n, path, b, w) :
                  n \in 1..MaxStore, path \in {None, [type |-> "Path"]},
                  b \in 1..MaxBatchSize, w \in 0..MaxNumWorkers}
    /\ dm = None
    /\ hook = None
    /\ cd = None
    /\ nz = None
    /\ workers = None
    /\ cds = None
    /\ tiling = None
    /\ DatasetIdle

NextContrastive ==
    \/ \E stage \in ContrastiveStages : ContrastiveSetup(stage)
    \/ ContrastivePredictDataloader

SpecContrastive == InitContrastive /\ [][NextContrastive]_vars

----------------------------------------------------------------------------
(* Properties of ContrastiveDataModule.                                    *)

\* C25: predict_dataloader() raises ValueError in every state in which no
\* predict dataset has been built and returns a loader that does not shuffle
\* otherwise; only a setup(stage='predict') with predict_base_path configured
\* creates a predict dataset.
C25_PredictLoaderGuard ==
    [][/\ cdm'.loads # cdm.loads =>
              IF cdm.predict_dataset = None
              THEN cdm'.loader.raised = "ValueError"
              ELSE /\ cdm'.loader.raised = ""
                   /\ ~cdm'.loader.shuffle
                   /\ cdm'.loader.dataset = cdm.predict_dataset
       /\ (cdm'.calls # cdm.calls /\ cdm'.predict_dataset # cdm.predict_dataset) =>
              /\ cdm'.last_stage = "predict"
              /\ cdm.predict_base_path # None]_vars

----------------------------------------------------------------------------
(* viscy.data.hcs.ContrastiveDataset                                       *)
(*                                                                         *)
(* cds.n is len(self.positions); every position has the same row in the    *)
(* timesteps table: cds.row.matched tells whether restructure_data finds a  *)
(* row, and cds.row.start, cds.row.end are its Start Time and End Time.    *)
(* cds.pc is "idle" before a __getitem__ call, "sampling" while the call   *)
(* is in its resampling loop, then "returned" or "raised"; cds.draws       *)
(* counts the iterations of the loop up to MaxGets.                        *)

\* self.transform({"image": data})["image"], or data without a transform
ContrastiveTransform(c, data) ==
    IF c.transform THEN [type |-> "transformed", of |-> data] ELSE data

\* restructure_data cannot return: no row matches, or
\* np.random.randint(start_time, end_time) has an empty range
LoadDataRaises(c) == ~c.row.matched \/ c.row.start >= c.row.end

\* load_data(position_path) with the time step np.random.randint drew
load_data(c, place, random_timestep) == <<place, random_timestep>>

\* __getitem__(idx) up to the resampling loop: the anchor and the positive
\* are loaded and negative_idx starts at idx
ContrastiveGetItem(idx, random_timestep) ==
    /\ cds.type = "ContrastiveDataset"
    /\ cds.pc = "idle"
    /\ random_timestep \in cds.row.start..Max(cds.row.start, cds.row.end - 1)
    /\ cds' = IF idx < 0 - cds.n \/ idx >= cds.n
              THEN [cds EXCEPT !.pc = "raised", !.raised = "IndexError", !.idx = idx]
              ELSE IF LoadDataRaises(cds)
              THEN [cds EXCEPT !.pc = "raised", !.raised = "ValueError", !.idx = idx]
              ELSE LET place == IF idx < 0 THEN idx + cds.n ELSE idx
                       anchor_data == load_data(cds, place, random_timestep)
                   IN  [cds EXCEPT !.pc = "sampling", !.idx = idx,
                                   !.anchor = anchor_data,
                                   !.positive = ContrastiveTransform(cds, anchor_data),
                                   !.negative_idx = idx]
    /\ UNCHANGED <<dm, hook, cd, nz, workers, cdm, tiling>>
    /\ UNCHANGED dataset_vars
    /\ UNCHANGED collate_vars

\* one iteration of "while negative_idx == idx":
\* negative_idx = random.randint(0, len(self) - 1), both ends included
Resample(drawn) ==
    /\ cds.type = "ContrastiveDataset"
    /\ cds.pc = "sampling"
    /\ cds.negative_idx = cds.idx
    /\ drawn \in 0..(cds.n - 1)
    /\ cds' = [cds EXCEPT !.negative_idx = drawn, !.draws = Min(@ + 1, MaxGets)]
    /\ UNCHANGED <<dm, hook, cd, nz, workers, cdm, tiling>>
    /\ UNCHANGED dataset_vars
    /\ UNCHANGED collate_vars

\* the loop is left: the negative is loaded and the triple returned
ReturnTriple(random_timestep) ==
    /\ cds.type = "ContrastiveDataset"
    /\ cds.pc = "sampling"
    /\ cds.negative_idx # cds.idx
    /\ random_timestep \in cds.row.start..(cds.row.end - 1)
    /\ cds' = [cds EXCEPT !.pc = "returned",
                          !.negative = ContrastiveTransform(
                              cds, load_data(cds, cds.negative_idx, random_timestep))]
    /\ UNCHANGED <<dm, hook, cd, nz, workers, cdm, tiling>>
    /\ UNCHANGED dataset_vars
    /\ UNCHANGED collate_vars

\* ContrastiveDataset.__init__
ContrastiveDataset(n, tr, row) ==
    [type |-> "ContrastiveDataset", n |-> n, transform |-> tr, row |-> row,
     pc |-> "idle", raised |-> "", idx |-> 0, negative_idx |-> 0, draws |-> 0,
     anchor |-> None, positive |-> None, negative |-> None]

TimestepRows ==
    {[matched |-> m, start |-> 0, end |-> e] : m \in BOOLEAN, e \in 0..MaxT}

InitContrastiveDataset ==
    /\ cds \in {ContrastiveDataset(n, tr, row) :
                  n \in 1..MaxStore, tr \in BOOLEAN, row \in TimestepRows}
    /\ dm = None
    /\ hook = None
    /\ cd = None
    /\ nz = None
    /\ workers = None
    /\ cdm = None
    /\ tiling = None
    /\ DatasetIdle

NextContrastiveDataset ==
    \/ \E idx \in (0 - MaxStore)..MaxStore : \E random_timestep \in 0..MaxT :
          ContrastiveGetItem(idx, random_timestep)
    \/ \E drawn \in 0..(MaxStore - 1) : Resample(drawn)
    \/ \E random_timestep \in 0..MaxT : ReturnTriple(random_timestep)

SpecContrastiveDataset == InitContrastiveDataset /\ [][NextContrastiveDataset]_vars

----------------------------------------------------------------------------
(* Properties of ContrastiveDataset.                                       *)

\* C26: __getitem__(idx) terminates for every dataset of N >= 1 positions
\* and every valid idx: whenever the call is in its resampling loop some
\* draw of random.randint(0, N - 1) leaves the loop, so that it exits under
\* fair random choice, and the negative index it exits with is in [0, N) and
\* differs from idx.
C26_ResamplingExits ==
    /\ (cds.type = "ContrastiveDataset" /\ cds.pc = "sampling"
            /\ cds.negative_idx = cds.idx) =>
           \E drawn \in 0..(cds.n - 1) : drawn # cds.idx
    /\ (cds.type = "ContrastiveDataset" /\ cds.pc = "returned") =>
           /\ cds.negative_idx \in 0..(cds.n - 1)
           /\ cds.negative_idx # cds.idx

----------------------------------------------------------------------------
(* _collate_samples on samples that carry their index.                     *)

\* the HCSStackIndex of a sample: (image name, time index, z index)
StackIndex(name, t, z) == Tuple(<<PyStr(name), PyInt(t), PyInt(z)>>)

\* batches of samples of one time point and one z window, each with its
\* index and its source
IndexedBatches ==
    UNION {{[i \in 1..n |->
               [key \in {"index", "source"} |->
                   IF key = "index" THEN StackIndex(names[i], t, z)
                   ELSE SampleValue(i, key, crops)]] :
             names \in [1..n -> 1..MaxPos], t \in 0..(MaxT - 1),
             z \in 0..(MaxZ - 1), crops \in 0..MaxCrops} :
           n \in 1..MaxBatch}

InitCollateIndexed ==
    /\ batch \in IndexedBatches
    /\ collated = None
    /\ positions = <<>>
    /\ z_window_size = 1
    /\ channels = [source |-> <<>>]
    /\ transform = [kind |-> "None"]
    /\ source_ch_idx = <<>>
    /\ target_ch_idx = None
    /\ window_keys = <<>>
    /\ window_arrays = <<>>
    /\ window_norm_meta = <<>>
    /\ max_window = 0
    /\ status = "none"
    /\ result = None
    /\ ComponentsIdle

SpecCollateIndexed == InitCollateIndexed /\ [][NextCollate]_vars

\* C28: the collated 'index' entry identifies exactly one (name, t, z)
\* triple per sample, in sample order: the index tuple of a sample is kept
\* as one unit and is not split into its elements.
C28_IndexKeptWhole ==
    (Collated /\ "index" \in DOMAIN collated.outcome.value) =>
        LET out == collated.outcome.value["index"]
        IN  /\ Len(out.items) = Len(batch)
            /\ \A i \in 1..Len(batch) : out.items[i] = batch[i]["index"]

----------------------------------------------------------------------------
(* The key check of NormalizeSampled.__init__.                             *)

\* C29: constructing NormalizeSampled with keys that contain any key not in
\* the channel map raises KeyError, whether the keys are disjoint from the
\* channel map, overlap it or include it; the construction succeeds only
\* when every key is a key of the channel map.
C29_UnknownKeyRaises ==
    (nz.type = "NormalizeSampled" /\ nz.status # "new") =>
        /\ (\E i \in 1..Len(nz.keys) : nz.keys[i] \notin DOMAIN nz.channels) =>
               nz.raised = "KeyError"
        /\ nz.status = "ready" =>
               \A i \in 1..Len(nz.keys) : nz.keys[i] \in DOMAIN nz.channels

----------------------------------------------------------------------------
(* micro_dl.utils.image_utils.crop_3d                                      *)
(*                                                                         *)
(* tiling.shape is input_image.shape, (size_x, size_y, size_z).  A block   *)
(* of the returned list is [id, covered]: id holds the six numbers         *)
(* formatted into the id string, as the ranges <<min, max>> of x, y and z, *)
(* and covered the index ranges <<first, end>> the slice really took.      *)
(* Tile and step sizes are triples of positive numbers, which pass the two *)
(* assertions at the head of the function.                                 *)

MaxSize == 3

MaxTile == 2

\* list(range(0, size - step + 1, step))
RangeStarts(size, step) ==
    [i \in 1..(IF size - step + 1 <= 0 THEN 0 ELSE ((size - step) \div step) + 1) |->
        (i - 1) * step]

\* input_image[lo:hi] along an axis of the given size: a slice is clipped
\* to the array
SliceRange(lo, hi, size) == <<Min(lo, size), Min(hi, size)>>

\* the (tiled_image_id, tiled_img) appended for the block at x, y, z
Block(shape, tile_size, x, y, z) ==
    [id |-> <<<<x, x + tile_size[1]>>, <<y, y + tile_size[2]>>, <<z, z + tile_size[3]>>>>,
     covered |-> <<SliceRange(x, x + tile_size[1], shape[1]),
                   SliceRange(y, y + tile_size[2], shape[2]),
                   SliceRange(z, z + tile_size[3], shape[3])>>]

\* crop_3d(input_image, tile_size, step_size): cropped_image_list, filled
\* by the loops over z, then y, then x
crop_3d(shape, tile_size, step_size) ==
    LET xs == RangeStarts(shape[1], step_size[1])
        ys == RangeStarts(shape[2], step_size[2])
        zs == RangeStarts(shape[3], step_size[3])
    IN  [k \in 1..(Len(zs) * Len(ys) * Len(xs)) |->
            Block(shape, tile_size,
                  xs[((k - 1) % Len(xs)) + 1],
                  ys[(((k - 1) \div Len(xs)) % Len(ys)) + 1],
                  zs[((k - 1) \div (Len(xs) * Len(ys))) + 1])]

\* one crop_3d call
Crop3d ==
    /\ tiling.type = "crop_3d"
    /\ tiling.returned = None
    /\ tiling' = [tiling EXCEPT !.returned =
                     List(crop_3d(tiling.shape, tiling.tile_size, tiling.step_size))]
    /\ UNCHANGED <<dm, hook, cd, nz, workers, cdm, cds>>
    /\ UNCHANGED dataset_vars
    /\ UNCHANGED collate_vars

\* images of every shape, with tiles and steps step_size <= tile_size
InitCrop3d ==
    /\ tiling \in {c \in [type : {"crop_3d"}, shape : [1..3 -> 1..MaxSize],
                          tile_size : [1..3 -> 1..MaxTile],
                          step_size : [1..3 -> 1..MaxTile], returned : {None}] :
                     \A a \in 1..3 : c.step_size[a] <= c.tile_size[a]}
    /\ dm = None
    /\ hook = None
    /\ cd = None
    /\ nz = None
    /\ workers = None
    /\ cdm = None
    /\ cds = None
    /\ DatasetIdle

NextCrop3d == Crop3d

SpecCrop3d == InitCrop3d /\ [][NextCrop3d]_vars

\* C30: crop_3d returns only blocks that lie fully inside the image and have
\* exactly the shape tile_size, for every image size and every
\* step_size <= tile_size, and the id of each block names the x, y and z
\* ranges the block covers.
C30_BlocksInsideImage ==
    (tiling.type = "crop_3d" /\ tiling.returned # None) =>
        \A k \in 1..Len(tiling.returned.items) :
            LET block == tiling.returned.items[k]
            IN  \A a \in 1..3 :
                    /\ block.id[a][2] <= tiling.shape[a]
                    /\ block.covered[a][2] - block.covered[a][1] = tiling.tile_size[a]
                    /\ block.id[a] = block.covered[a]

====
